---- MODULE Spec2Model ----
(***************************************************************************)
(* The sketch editor of src/sketch/app.js (first class set, lines 1-2552): *)
(* StateManager (bounded undo history), the graph model of                 *)
(* SupplyChainCanvas (nodes, connections, freehand strokes), its           *)
(* connectivity rule, selection / tool state and the natural-language      *)
(* generator.                                                              *)
(*                                                                         *)
(* Every handler of the program is an operator from an editor state (a     *)
(* record with one field per field of the object) to the editor state      *)
(* after the handler returned; an action applies one handler to the        *)
(* current variables.  A handler that calls another handler uses the       *)
(* other one's operator, so an action is always the whole handler.         *)
(*                                                                         *)
(* Positions are pairs <<x, y>> of world coordinates in whole pixels; the  *)
(* camera stays at its initial offset and zoom, so a pointer event's world *)
(* position is its canvas position.                                        *)
(*                                                                         *)
(* JavaScript object references (selectedNodes, connectingFrom,            *)
(* contextMenuNode, ...) are Ref records: a live reference names the       *)
(* object of this.nodes with that id; a reference whose object has been    *)
(* filtered out of, or replaced in, the array keeps the detached object.   *)
(***************************************************************************)
EXTENDS Integers, Sequences, FiniteSets, TLC

VARIABLES
    nodes,                \* this.nodes: sequence of node objects
    connections,          \* this.connections: sequence of edge objects
    nodeCounter,          \* this.nodeCounter
    freehandStrokes,      \* this.freehandStrokes
    history,              \* stateManager.history
    currentIndex,         \* stateManager.currentIndex (0-based, -1 when empty)
    clipboard,            \* stateManager.clipboard  (<<>> is null)
    internalClipboard,    \* this.internalClipboard  (<<>> is undefined)
    selectedNodes,        \* this.selectedNodes: sequence of Refs
    selectedStrokes,      \* this.selectedStrokes: sequence of Refs
    selectedConnection,   \* this.selectedConnection (<<>> is null)
    connectingFrom,       \* this.connectingFrom (<<>> is null)
    contextMenuNode,      \* this.contextMenuNode (<<>> is null)
    contextMenuConnection,\* this.contextMenuConnection (<<>> is null)
    editingNode,          \* this.editingNode (<<>> is null)
    editingConnection,    \* this.editingConnection (<<>> is null)
    currentTool,          \* this.currentTool
    isPanning, isDraggingElement, isResizing, isSelecting,
    selectionRect,        \* this.selectionRect (<<>> is null)
    dragOffset,           \* this.dragOffset
    currentStroke,        \* this._currentStroke (<<>> is null)
    isCtrlPressed,        \* this.isCtrlPressed
    menu,                 \* #contextMenu: "hidden", or the items showContextMenu displayed
    modalHidden,          \* #editModal carries class "hidden"
    editInputHandler,     \* this._editInputHandler is set (the input listener)
    strokeClock,          \* number of stroke ids handed out (Date.now() / random)
    lastCall,             \* the undo, createConnection or canConnect call of the last event and its result
    isRendering,          \* this.isRendering
    frames,               \* requestAnimationFrame: the callbacks pending, the
                          \* queueRender calls since the last frame, and the
                          \* calls and renders of the last frame
    mem                   \* the objects and arrays behind this.nodes and the
                          \* snapshots of stateManager.history, by reference

vars == << nodes, connections, nodeCounter, freehandStrokes, history, currentIndex,
           clipboard, internalClipboard, selectedNodes, selectedStrokes,
           selectedConnection, connectingFrom, contextMenuNode,
           contextMenuConnection, editingNode, editingConnection, currentTool,
           isPanning, isDraggingElement, isResizing, isSelecting, selectionRect,
           dragOffset, currentStroke, isCtrlPressed, menu, modalHidden,
           editInputHandler,
           strokeClock, lastCall, isRendering, frames, mem >>

---------------------------------------------------------------------------
(* Program constants *)

maxHistorySize == 25

NodeHitRadius == 32

ConnHitDist == 10

StrokeHitDist == 5

PasteOffset == 20

ConnectedOffset == 150

(* Bounds of the model *)

\* nodeCounter never passes this value in the editor specification
MaxCounter == 2

\* events are taken while the history stays this short
MaxHistLen == 4

\* strokes drawn in one behaviour, and points per stroke
MaxStrokes == 1

MaxPoints == 2

\* nodes stay left of MaxX and above MaxY
MaxX == 500

MaxY == 270

\* nodes and snapshots of the specification of direct calls
MaxApiNodes == 2

MaxApiHist == 3

\* nodeCounter cap of the history specification (more than maxHistorySize)
MaxCounterHist == 26

\* history specification: mutations after an undo are taken only while the
\* history holds at most this many pairs of equal neighbouring snapshots
MaxRepeats == 1
\* the box-selection specification: node counter and node count, history
\* length, coordinates
MaxBoxCounter == 8
MaxBoxHist == 4
MaxBoxX == 720
MaxBoxY == 300
\* the file specification: largest node id of a file, history length
MaxFileId == 5
MaxLoadHist == 3
\* the redraw specification: queueRender calls between two frames
MaxQueueCalls == 4
\* the generator specification: words of a text, history length
MaxWords == 3
MaxGenHist == 2

\* the paste specification: nodes of the diagram, history length
MaxPasteNodes == 8

MaxPasteHist == 4

\* the lowest place of a node: a copy of a sample node, not a copy of a copy
MaxPasteY == 170

\* the edge specification: nodes of the diagram and nodeCounter, history length
MaxEdgeNodes == 2

MaxEdgeHist == 6

\* the tokenizer specification: words of a text
MaxTokWords == 4
\* SpecPointer: nodes on the canvas and snapshots written
MaxPtrNodes == 1
MaxPtrHist == 3
\* SpecEdit: nodes on the canvas and snapshots written
MaxEditNodes == 2
MaxEditHist == 6

\* the memory specification: nodes of the diagram, history length
MaxMemNodes == 2

MaxMemHist == 4

\* objects and arrays ever made
MaxMemObjs == 10

MaxMemArrs == 10

NodeTypes == {"material", "activity", "textbox"}

Tools == {"select", "connect", "delete"}

\* positions of the pointer (world coordinates): the places of the first two
\* columns of a generated diagram, where nodes are dropped too, the point
\* between them, and a point of the label strip of a node at the first place
\* that the node's hit circle covers
PosA == <<150, 250>>

PosB == <<350, 250>>

PosMid == <<250, 250>>

PosLabel == <<150, 281>>
\* the first node of the sample diagram
PosSample == <<100, 150>>
\* the place of a node added by the menu of a node at PosSample
PosSecond == <<250, 150>>
\* the corners of a box over the first three nodes of the sample diagram
BoxFrom == <<50, 100>>
BoxTo == <<450, 200>>

\* what is dropped from the palette, and where
Drops == {<<"material", PosA>>, <<"activity", PosB>>}

PointerPositions == {PosA, PosB, PosMid}

\* descriptions typed into #nlInput, as word sequences; <<>> is the empty input
NLTexts == {<<>>, <<"hello", "world">>, <<"supplier", "ship">>}

\* texts typed into the edit modal
EditTexts == {"", "L"}
\* a description of a chain of five stages, in words
Sentence == <<"two", "raw", "materials", "consumed", "in", "a", "bom", "to",
              "produce", "a", "finished", "good", "distributed", "to", "a", "dc">>

---------------------------------------------------------------------------
(* Sequences *)

Range(q) == {q[i] : i \in 1..Len(q)}

Abs(n) == IF n < 0 THEN -n ELSE n

Min2(a, b) == IF a < b THEN a ELSE b

Max2(a, b) == IF a > b THEN a ELSE b

---------------------------------------------------------------------------
(* StateManager, app.js 1-47 *)

\* JSON.parse(JSON.stringify(v)): the snapshot values of the model are trees of
\* numbers, strings and arrays, which the round trip reproduces field by field
RECURSIVE DeepCopySeq(_)
DeepCopySeq(q) == IF q = <<>> THEN <<>> ELSE <<Head(q)>> \o DeepCopySeq(Tail(q))

DeepCopyState(state) ==
    [nodes |-> DeepCopySeq(state.nodes),
     connections |-> DeepCopySeq(state.connections),
     nodeCounter |-> state.nodeCounter,
     freehandStrokes |-> DeepCopySeq(state.freehandStrokes)]

\* saveState without the limit: nothing is ever shifted out
SM_saveState_NoEvict(sm, state) ==
    LET h1 == SubSeq(sm.history, 1, sm.currentIndex + 1)
        h2 == Append(h1, DeepCopyState(state))
    IN  [history |-> h2, currentIndex |-> sm.currentIndex + 1]

\* saveState that appends without discarding what lies beyond the pointer
SM_saveState_NoTruncate(sm, state) ==
    LET h2 == Append(sm.history, DeepCopyState(state))
        i2 == sm.currentIndex + 1
    IN  IF Len(h2) > maxHistorySize
        THEN [history |-> Tail(h2), currentIndex |-> i2 - 1]
        ELSE [history |-> h2, currentIndex |-> i2]

\* saveState with a limit of three snapshots
SM_saveState_EvictEarly(sm, state) ==
    LET h1 == SubSeq(sm.history, 1, sm.currentIndex + 1)
        h2 == Append(h1, DeepCopyState(state))
        i2 == sm.currentIndex + 1
    IN  IF Len(h2) > 3
        THEN [history |-> Tail(h2), currentIndex |-> i2 - 1]
        ELSE [history |-> h2, currentIndex |-> i2]

\* StateManager.saveState(state) on the pair (history, currentIndex)
SM_saveState(sm, state) ==
    LET h1 == SubSeq(sm.history, 1, sm.currentIndex + 1)
        h2 == Append(h1, DeepCopyState(state))
        i2 == sm.currentIndex + 1
    IN  IF Len(h2) > maxHistorySize
        THEN [history |-> Tail(h2), currentIndex |-> i2 - 1]
        ELSE [history |-> h2, currentIndex |-> i2]

\* undo that steps the pointer down from 0 too
SM_undo_AtZero(sm) ==
    IF sm.currentIndex >= 0
    THEN [currentIndex |-> sm.currentIndex - 1,
          ret |-> IF sm.currentIndex >= 1
                  THEN <<DeepCopyState(sm.history[sm.currentIndex])>> ELSE <<>>]
    ELSE [currentIndex |-> sm.currentIndex, ret |-> <<>>]

\* StateManager.undo(): the new pointer and the returned snapshot (<<>> is null)
SM_undo(sm) ==
    IF sm.currentIndex > 0
    THEN [currentIndex |-> sm.currentIndex - 1,
          ret |-> <<DeepCopyState(sm.history[sm.currentIndex])>>]
    ELSE [currentIndex |-> sm.currentIndex, ret |-> <<>>]

---------------------------------------------------------------------------
(* Memory.  The node objects and the arrays that hold them, by address:    *)
(* objs[a] is the node object at address a, arrs[b] the array at address   *)
(* b, a sequence of addresses of objects.  nodes is the address of         *)
(* this.nodes, a snapshot of history holds the address of its nodes array. *)
(* An object or array that nothing refers to stays where it is.            *)

\* a copy that is the array itself
jsonCopy_SameRef(m, a) == [m |-> m, addr |-> a]

\* JSON.parse(JSON.stringify(array)): a new array of new objects with the
\* fields of the old ones
jsonCopy(m, a) ==
    LET items == m.arrs[a]
        n == Len(m.objs)
    IN  [m |-> [m EXCEPT !.objs = @ \o [i \in 1..Len(items) |-> m.objs[items[i]]],
                         !.arrs = Append(@, [i \in 1..Len(items) |-> n + i])],
         addr |-> Len(m.arrs) + 1]

\* saveState() of the canvas and of the state manager: slice, push of the
\* copy of {nodes: this.nodes, nodeCounter: this.nodeCounter}, shift
memSaveState(m) ==
    LET c == jsonCopy(m, m.nodes)
        h1 == SubSeq(m.history, 1, m.currentIndex + 1)
        h2 == Append(h1, [nodes |-> c.addr, nodeCounter |-> m.nodeCounter])
        i2 == m.currentIndex + 1
    IN  IF Len(h2) > maxHistorySize
        THEN [c.m EXCEPT !.history = Tail(h2), !.currentIndex = i2 - 1]
        ELSE [c.m EXCEPT !.history = h2, !.currentIndex = i2]

\* the drop listener: saveState(), then addNode makes an object and pushes it
\* on this.nodes
memDrop(m, x) ==
    LET s == memSaveState(m)
        node == [id |-> s.nodeCounter + 1, x |-> x, label |-> "Material"]
    IN  [s EXCEPT !.nodeCounter = @ + 1,
                  !.objs = Append(@, node),
                  !.arrs[s.nodes] = Append(@, Len(s.objs) + 1)]

\* a drag of the i-th node to x: saveState(), then node.x = x
memMove(m, i, x) ==
    LET s == memSaveState(m)
    IN  [s EXCEPT !.objs[s.arrs[s.nodes][i]].x = x]

\* saveEdit() on the i-th node: saveState(), then editingNode.label = label
memEdit(m, i, label) ==
    LET s == memSaveState(m)
    IN  [s EXCEPT !.objs[s.arrs[s.nodes][i]].label = label]

\* Delete with the i-th node selected: saveState(), then
\* this.nodes = this.nodes.filter(...), a new array of the objects that stay
memDelete(m, i) ==
    LET s == memSaveState(m)
        old == s.arrs[s.nodes]
    IN  [s EXCEPT !.arrs = Append(@, SelectSeq(old, LAMBDA a : a # old[i])),
                  !.nodes = Len(s.arrs) + 1]

\* undo(): the state manager returns a copy of history[--currentIndex], and
\* the canvas takes a copy of the nodes of that copy as this.nodes
memUndo(m) ==
    IF m.currentIndex > 0
    THEN LET previousState == jsonCopy(m, m.history[m.currentIndex].nodes)
             restored == jsonCopy(previousState.m, previousState.addr)
         IN  [restored.m EXCEPT !.currentIndex = m.currentIndex - 1,
                                !.nodes = restored.addr,
                                !.nodeCounter = m.history[m.currentIndex].nodeCounter]
    ELSE m

\* the memory after the constructor: an empty this.nodes, and the snapshot of
\* saveInitialState()
constructedMem ==
    memSaveState([objs |-> <<>>, arrs |-> << <<>> >>, nodes |-> 1, nodeCounter |-> 0,
                  history |-> <<>>, currentIndex |-> -1, trail |-> <<"", "">>])

---------------------------------------------------------------------------
(* Object references *)

NodeRef(id) == [live |-> TRUE, id |-> id, obj |-> <<>>]

DetachedRef(o) == [live |-> FALSE, id |-> o.id, obj |-> <<o>>]

ConnKey(c) == <<c.from, c.to>>

ConnRef(c) == [live |-> TRUE, id |-> ConnKey(c), obj |-> <<>>]

DetachedConn(c) == [live |-> FALSE, id |-> ConnKey(c), obj |-> <<c>>]

NodeIds(nds) == {nds[i].id : i \in 1..Len(nds)}

\* this.nodes.find(n => n.id === id), for an id that is present
NodeById(nds, id) == nds[CHOOSE i \in 1..Len(nds) : nds[i].id = id]

ConnByKey(cs, k) == cs[CHOOSE i \in 1..Len(cs) : ConnKey(cs[i]) = k]

\* the object a node (or stroke) reference points to
Deref(nds, r) == IF r.live THEN NodeById(nds, r.id) ELSE r.obj[1]

DerefConn(cs, r) == IF r.live THEN ConnByKey(cs, r.id) ELSE r.obj[1]

\* references of q whose object leaves the array nds keep the object, detached
DetachRefs(q, nds, gone) ==
    [i \in 1..Len(q) |->
        IF q[i].live /\ q[i].id \in gone THEN DetachedRef(NodeById(nds, q[i].id))
        ELSE q[i]]

DetachConnRefs(q, cs, gone) ==
    [i \in 1..Len(q) |->
        IF q[i].live /\ q[i].id \in gone THEN DetachedConn(ConnByKey(cs, q[i].id))
        ELSE q[i]]

\* the objects with ids in gone are about to leave this.nodes
DetachNodes(s, gone) ==
    [s EXCEPT !.selectedNodes = DetachRefs(@, s.nodes, gone),
              !.connectingFrom = DetachRefs(@, s.nodes, gone),
              !.contextMenuNode = DetachRefs(@, s.nodes, gone),
              !.editingNode = DetachRefs(@, s.nodes, gone)]

DetachConns(s, gone) ==
    [s EXCEPT !.selectedConnection = DetachConnRefs(@, s.connections, gone),
              !.contextMenuConnection = DetachConnRefs(@, s.connections, gone),
              !.editingConnection = DetachConnRefs(@, s.connections, gone)]

DetachStrokes(s, gone) ==
    [s EXCEPT !.selectedStrokes = DetachRefs(@, s.freehandStrokes, gone),
              !.currentStroke = DetachRefs(@, s.freehandStrokes, gone)]

\* this.nodes, this.connections and this.freehandStrokes are about to be
\* replaced by other arrays of other objects
DetachAll(s) ==
    DetachStrokes(
        DetachConns(DetachNodes(s, NodeIds(s.nodes)),
                    {ConnKey(s.connections[i]) : i \in 1..Len(s.connections)}),
        NodeIds(s.freehandStrokes))

---------------------------------------------------------------------------
(* SupplyChainCanvas: graph model, app.js 261-277, 1059-1167 *)

StateOf(s) ==
    [nodes |-> s.nodes, connections |-> s.connections,
     nodeCounter |-> s.nodeCounter, freehandStrokes |-> s.freehandStrokes]

saveState(s) ==
    LET r == SM_saveState([history |-> s.history, currentIndex |-> s.currentIndex],
                          StateOf(s))
    IN  [s EXCEPT !.history = r.history, !.currentIndex = r.currentIndex]

getNodeShape(type) ==
    CASE type = "material" -> "triangle"
      [] type = "activity" -> "circle"
      [] type = "textbox" -> "rectangle"
      [] OTHER -> "circle"

defaultLabels(type, counter) ==
    CASE type = "material" -> "Material " \o ToString(counter + 1)
      [] type = "activity" -> "Activity " \o ToString(counter + 1)
      [] OTHER -> "Click to edit text"

\* computeTextBoxDimensions(text): the width comes from the canvas text metrics,
\* here 80 (the minimum) for the short texts and 120 for the placeholder; one
\* line of 12px text is Max(28, 14 + 20) high
computeTextBoxDimensions(text) ==
    [width |-> IF text = "Click to edit text" THEN 120 ELSE 80, height |-> 34]

\* addNode reading the node counter without advancing it
addNode_KeepCounter(s, type, pos, label) ==
    LET n == s.nodeCounter + 1
        text == IF label = <<>> \/ label[1] = ""
                THEN defaultLabels(type, s.nodeCounter) ELSE label[1]
        node == [id |-> n, type |-> type, shape |-> getNodeShape(type),
                 label |-> text, x |-> pos[1], y |-> pos[2],
                 width |-> 0, height |-> 0, dragStart |-> <<>>]
    IN  [s EXCEPT !.nodes = Append(@, node),
                  !.selectedNodes = <<NodeRef(n)>>]

\* addNode(type, x, y, label): pos is <<x, y>>, label is <<>> for null; the
\* created node is the last element of the result's nodes
addNode(s, type, pos, label) ==
    LET n == s.nodeCounter + 1
        text == IF label = <<>> \/ label[1] = ""
                THEN defaultLabels(type, s.nodeCounter) ELSE label[1]
        node == [id |-> n, type |-> type, shape |-> getNodeShape(type),
                 label |-> text, x |-> pos[1], y |-> pos[2],
                 width |-> IF type = "textbox"
                           THEN computeTextBoxDimensions(text).width ELSE 0,
                 height |-> IF type = "textbox"
                            THEN computeTextBoxDimensions(text).height ELSE 0,
                 dragStart |-> <<>>]
    IN  [s EXCEPT !.nodeCounter = n,
                  !.nodes = Append(@, node),
                  !.selectedNodes = <<NodeRef(n)>>]

LastNode(s) == s.nodes[Len(s.nodes)]

\* the record of a call whose return value a handler looks at
CallOf(op, from, to, ret) == [op |-> op, from |-> from, to |-> to, ret |-> ret]

NoCall == CallOf("", 0, 0, "")

\* canConnect with the text box as a kind that connects to nothing
canConnect_TextboxNever(nodeA, nodeB) ==
    IF nodeA.id = nodeB.id THEN FALSE
    ELSE IF nodeA.type = "textbox" \/ nodeB.type = "textbox" THEN FALSE
    ELSE nodeA.type # nodeB.type

canConnect(nodeA, nodeB) ==
    IF nodeA.id = nodeB.id THEN FALSE
    ELSE IF nodeA.type = "textbox" \/ nodeB.type = "textbox" THEN TRUE
    ELSE nodeA.type # nodeB.type

\* this.connections.find(c => joins fromNode and toNode in either direction)
existingConnection(cs, fromNode, toNode) ==
    \E i \in 1..Len(cs) :
        \/ cs[i].from = fromNode.id /\ cs[i].to = toNode.id
        \/ cs[i].from = toNode.id /\ cs[i].to = fromNode.id

\* createConnection that looks for an existing edge in the given direction only
createConnection_OneDirection(s, fromNode, toNode) ==
    IF ~canConnect(fromNode, toNode) THEN [s EXCEPT !.call = CallOf("createConnection", fromNode.id, toNode.id, "false")]
    ELSE IF \E i \in 1..Len(s.connections) :
                s.connections[i].from = fromNode.id /\ s.connections[i].to = toNode.id
    THEN [s EXCEPT !.call = CallOf("createConnection", fromNode.id, toNode.id, "false")]
    ELSE [saveState(s) EXCEPT
            !.connections = Append(@, [from |-> fromNode.id, to |-> toNode.id,
                                       label |-> ""]),
            !.connectingFrom = <<>>,
            !.call = CallOf("createConnection", fromNode.id, toNode.id, "true")]

\* createConnection that saves the state before it validates
createConnection_SaveFirst(s, fromNode, toNode) ==
    LET s1 == saveState(s)
    IN  IF ~canConnect(fromNode, toNode) THEN [s1 EXCEPT !.call = CallOf("createConnection", fromNode.id, toNode.id, "false")]
        ELSE IF existingConnection(s.connections, fromNode, toNode)
        THEN [s1 EXCEPT !.call = CallOf("createConnection", fromNode.id, toNode.id, "false")]
        ELSE [s1 EXCEPT
                !.connections = Append(@, [from |-> fromNode.id, to |-> toNode.id,
                                           label |-> ""]),
                !.connectingFrom = <<>>,
                !.call = CallOf("createConnection", fromNode.id, toNode.id, "true")]

\* createConnection(fromNode, toNode); the result is left in call.ret
createConnection(s, fromNode, toNode) ==
    IF ~canConnect(fromNode, toNode) THEN [s EXCEPT !.call = CallOf("createConnection", fromNode.id, toNode.id, "false")]
    ELSE IF existingConnection(s.connections, fromNode, toNode)
    THEN [s EXCEPT !.call = CallOf("createConnection", fromNode.id, toNode.id, "false")]
    ELSE [saveState(s) EXCEPT
            !.connections = Append(@, [from |-> fromNode.id, to |-> toNode.id,
                                       label |-> ""]),
            !.connectingFrom = <<>>,
            !.call = CallOf("createConnection", fromNode.id, toNode.id, "true")]

RECURSIVE SubSeqAt(_, _, _)
\* the elements of q at the indices in idx, in order
SubSeqAt(q, idx, i) ==
    IF i > Len(q) THEN <<>>
    ELSE IF i \in idx THEN <<q[i]>> \o SubSeqAt(q, idx, i + 1)
         ELSE SubSeqAt(q, idx, i + 1)

\* deleteNode removing the node and none of its edges
deleteNode_KeepEdges(s, node) ==
    LET keepN == {i \in 1..Len(s.nodes) : s.nodes[i].id # node.id}
    IN  [DetachNodes(s, {node.id}) EXCEPT !.nodes = SubSeqAt(s.nodes, keepN, 1)]

\* deleteNode(node, shouldRender)
deleteNode(s, node) ==
    LET keepN == {i \in 1..Len(s.nodes) : s.nodes[i].id # node.id}
        keepC == {i \in 1..Len(s.connections) :
                    s.connections[i].from # node.id /\ s.connections[i].to # node.id}
        goneC == {ConnKey(s.connections[i]) :
                    i \in (1..Len(s.connections)) \ keepC}
        s1 == DetachConns(DetachNodes(s, {node.id}), goneC)
    IN  [s1 EXCEPT !.nodes = SubSeqAt(s.nodes, keepN, 1),
                   !.connections = SubSeqAt(s.connections, keepC, 1)]

\* deleteConnection(connection): the filter compares object identity, so a
\* detached connection removes nothing
deleteConnection(s, cref) ==
    IF ~cref.live THEN s
    ELSE LET keepC == {i \in 1..Len(s.connections) :
                         ConnKey(s.connections[i]) # cref.id}
             s1 == DetachConns(s, {cref.id})
         IN  [s1 EXCEPT !.connections = SubSeqAt(s.connections, keepC, 1)]

hideContextMenu(s) == [s EXCEPT !.menu = "hidden"]

\* SupplyChainCanvas.undo(), app.js 605-621
undo(s) ==
    LET r == SM_undo([history |-> s.history, currentIndex |-> s.currentIndex])
    IN  IF r.ret # <<>>
        THEN LET previousState == r.ret[1]
             IN  [DetachAll(s) EXCEPT
                    !.currentIndex = r.currentIndex,
                    !.nodes = DeepCopySeq(previousState.nodes),
                    !.connections = DeepCopySeq(previousState.connections),
                    !.nodeCounter = previousState.nodeCounter,
                    !.freehandStrokes = DeepCopySeq(previousState.freehandStrokes),
                    !.selectedNodes = <<>>,
                    !.selectedStrokes = <<>>,
                    !.connectingFrom = <<>>,
                    !.menu = "hidden",
                    !.call = CallOf("undo", 0, 0, "state")]
        ELSE [s EXCEPT !.currentIndex = r.currentIndex, !.call = CallOf("undo", 0, 0, "null")]

---------------------------------------------------------------------------
(* Hit tests, app.js 662-676, 809-816, 1120-1152 *)

nodeHit(node, pos) ==
    IF node.type = "textbox"
    THEN /\ 2 * Abs(pos[1] - node.x) <= node.width
         /\ 2 * Abs(pos[2] - node.y) <= node.height
    ELSE (pos[1] - node.x) * (pos[1] - node.x) + (pos[2] - node.y) * (pos[2] - node.y)
            <= NodeHitRadius * NodeHitRadius

\* getNodeAt(x, y): the topmost (last) node under the pointer, <<>> for null
getNodeAt(nds, pos) ==
    LET hits == {i \in 1..Len(nds) : nodeHit(nds[i], pos)}
    IN  IF hits = {} THEN <<>>
        ELSE <<nds[CHOOSE i \in hits : \A j \in hits : j <= i]>>

\* distanceToLine(px, py, x1, y1, x2, y2) <= ConnHitDist, in integers
nearLine(pos, a, b) ==
    LET dx == b.x - a.x
        dy == b.y - a.y
        lenSq == dx * dx + dy * dy
        d1 == (pos[1] - a.x) * (pos[1] - a.x) + (pos[2] - a.y) * (pos[2] - a.y)
        d2 == (pos[1] - b.x) * (pos[1] - b.x) + (pos[2] - b.y) * (pos[2] - b.y)
        dot == (pos[1] - a.x) * dx + (pos[2] - a.y) * dy
        lim == ConnHitDist * ConnHitDist
    IN  IF lenSq = 0 THEN d1 <= lim
        ELSE IF dot <= 0 THEN d1 <= lim
        ELSE IF dot >= lenSq THEN d2 <= lim
        ELSE (d1 - lim) * lenSq <= dot * dot

\* getConnectionAt(x, y): the first connection near the pointer whose two
\* end nodes exist, <<>> for undefined
getConnectionAt(s, pos) ==
    LET hits == {i \in 1..Len(s.connections) :
                    /\ s.connections[i].from \in NodeIds(s.nodes)
                    /\ s.connections[i].to \in NodeIds(s.nodes)
                    /\ nearLine(pos, NodeById(s.nodes, s.connections[i].from),
                                NodeById(s.nodes, s.connections[i].to))}
    IN  IF hits = {} THEN <<>>
        ELSE <<s.connections[CHOOSE i \in hits : \A j \in hits : i <= j]>>

\* getStrokeAt(x, y): the last pen stroke with a point next to the pointer
getStrokeAt(strokes, pos) ==
    LET hits == {i \in 1..Len(strokes) :
                    /\ strokes[i].tool # "eraser"
                    /\ \E k \in 1..Len(strokes[i].points) :
                          /\ Abs(strokes[i].points[k][1] - pos[1]) < StrokeHitDist
                          /\ Abs(strokes[i].points[k][2] - pos[2]) < StrokeHitDist}
    IN  IF hits = {} THEN <<>>
        ELSE <<strokes[CHOOSE i \in hits : \A j \in hits : j <= i]>>

isClickOnLabel(pos, node) ==
    IF node.type = "textbox" THEN FALSE
    ELSE /\ pos[1] >= node.x - 50 /\ pos[1] <= node.x + 50
         /\ pos[2] >= node.y + 40 - 10 /\ pos[2] <= node.y + 40 + 10

\* this.selectedNodes.includes(obj) for an object obj of this.nodes
includesLive(q, id) == \E i \in 1..Len(q) : q[i].live /\ q[i].id = id

---------------------------------------------------------------------------
(* In-place updates of objects through references *)

\* the object with this id in the array q becomes f
SetObj(q, id, f) ==
    [i \in 1..Len(q) |-> IF q[i].id = id THEN f ELSE q[i]]

SetConn(q, k, f) ==
    [i \in 1..Len(q) |-> IF ConnKey(q[i]) = k THEN f ELSE q[i]]

\* f applied to every object this.selectedNodes refers to
UpdateSelectedNodes(s, f(_)) ==
    [s EXCEPT
        !.nodes = [i \in 1..Len(s.nodes) |->
                     IF includesLive(s.selectedNodes, s.nodes[i].id)
                     THEN f(s.nodes[i]) ELSE s.nodes[i]],
        !.selectedNodes = [i \in 1..Len(s.selectedNodes) |->
                     IF s.selectedNodes[i].live THEN s.selectedNodes[i]
                     ELSE [s.selectedNodes[i] EXCEPT !.obj = <<f(@[1])>>]]]

UpdateSelectedStrokes(s, f(_)) ==
    [s EXCEPT
        !.freehandStrokes = [i \in 1..Len(s.freehandStrokes) |->
                     IF includesLive(s.selectedStrokes, s.freehandStrokes[i].id)
                     THEN f(s.freehandStrokes[i]) ELSE s.freehandStrokes[i]],
        !.selectedStrokes = [i \in 1..Len(s.selectedStrokes) |->
                     IF s.selectedStrokes[i].live THEN s.selectedStrokes[i]
                     ELSE [s.selectedStrokes[i] EXCEPT !.obj = <<f(@[1])>>]]]

\* f applied to the object the reference r points to, r being the value of
\* the reference field named by the caller
UpdateNodeAt(s, r, f(_)) ==
    IF r.live THEN [s EXCEPT !.nodes = SetObj(@, r.id, f(NodeById(s.nodes, r.id)))]
    ELSE [s EXCEPT !.selectedNodes =
            [i \in 1..Len(s.selectedNodes) |->
                IF s.selectedNodes[i] = r
                THEN [r EXCEPT !.obj = <<f(@[1])>>] ELSE s.selectedNodes[i]]]

---------------------------------------------------------------------------
(* Tools, selection, delete, cut: app.js 539-603 *)

setTool(s, toolName) ==
    [s EXCEPT !.currentTool = toolName,
              !.connectingFrom = IF toolName # "connect" THEN <<>> ELSE @]

deselectAll(s) ==
    [s EXCEPT !.selectedNodes = <<>>,
              !.selectedStrokes = <<>>,
              !.connectingFrom = <<>>,
              !.selectedConnection = <<>>,
              !.contextMenuConnection = <<>>,
              !.contextMenuNode = <<>>,
              !.menu = "hidden"]

RECURSIVE deleteEach(_, _, _)
\* this.selectedNodes.forEach(node => this.deleteNode(node, false)), from index i
deleteEach(s, sel, i) ==
    IF i > Len(sel) THEN s
    ELSE deleteEach(deleteNode(s, [id |-> sel[i].id]), sel, i + 1)

\* this.freehandStrokes.filter(s => !this.selectedStrokes.includes(s))
removeSelectedStrokes(s) ==
    LET gone == {s.selectedStrokes[i].id :
                    i \in {j \in 1..Len(s.selectedStrokes) : s.selectedStrokes[j].live}}
        keep == {i \in 1..Len(s.freehandStrokes) : s.freehandStrokes[i].id \notin gone}
        s1 == DetachStrokes(s, gone)
    IN  [s1 EXCEPT !.freehandStrokes = SubSeqAt(s.freehandStrokes, keep, 1),
                   !.selectedStrokes = <<>>]

\* deleteSelected writing no snapshot
deleteSelected_NoSave(s) ==
    IF Len(s.selectedNodes) > 0
    THEN [deleteEach(s, s.selectedNodes, 1) EXCEPT !.selectedNodes = <<>>]
    ELSE s

deleteSelected(s) ==
    IF s.selectedConnection # <<>>
    THEN LET s1 == deleteConnection(saveState(s), s.selectedConnection[1])
         IN  [s1 EXCEPT !.selectedConnection = <<>>]
    ELSE IF Len(s.selectedNodes) > 0 \/ Len(s.selectedStrokes) > 0
    THEN LET s1 == deleteEach(saveState(s), s.selectedNodes, 1)
             s2 == [s1 EXCEPT !.selectedNodes = <<>>]
         IN  IF Len(s2.selectedStrokes) > 0 THEN removeSelectedStrokes(s2) ELSE s2
    ELSE s

\* the clipboard value copy and cut build from the selection
clipOf(s) ==
    LET nodesCopy == [i \in 1..Len(s.selectedNodes) |->
                         Deref(s.nodes, s.selectedNodes[i])]
        selectedIds == {s.selectedNodes[i].id : i \in 1..Len(s.selectedNodes)}
        keep == {i \in 1..Len(s.connections) :
                    s.connections[i].from \in selectedIds
                    /\ s.connections[i].to \in selectedIds}
    IN  [nodes |-> DeepCopySeq(nodesCopy),
         connections |-> DeepCopySeq(SubSeqAt(s.connections, keep, 1))]

cutSelected(s) ==
    IF Len(s.selectedNodes) > 0
    THEN LET s1 == saveState([s EXCEPT !.clipboard = <<clipOf(s)>>])
             s2 == deleteEach(s1, s.selectedNodes, 1)
         IN  [s2 EXCEPT !.selectedNodes = <<>>]
    ELSE s

---------------------------------------------------------------------------
(* Edit modal: app.js 824-846, 1904-1967 *)

enterLabelEditMode(s, nref) ==
    [s EXCEPT !.editingNode = <<nref>>,
              !.selectedNodes = <<nref>>,
              !.modalHidden = FALSE]

enterConnectionEditMode(s, cref) ==
    [s EXCEPT !.editingConnection = <<cref>>,
              !.selectedNodes = <<>>,
              !.modalHidden = FALSE]

cancelEdit(s) ==
    [s EXCEPT !.modalHidden = TRUE, !.editInputHandler = FALSE,
              !.editingNode = <<>>, !.editingConnection = <<>>]

\* saveEdit() with value the trimmed text of #editInput
saveEdit(s, value) ==
    IF s.editingNode # <<>>
    THEN LET r == s.editingNode[1]
             node == Deref(s.nodes, r)
             finalContent == IF value = "" THEN "Click to edit text" ELSE value
             dims == computeTextBoxDimensions(finalContent)
             s1 == saveState(s)
         IN  IF node.type = "textbox"
             THEN cancelEdit(UpdateNodeAt(s1, r,
                    LAMBDA n : [n EXCEPT !.label = finalContent,
                                         !.width = dims.width,
                                         !.height = dims.height]))
             ELSE cancelEdit(UpdateNodeAt(s1, r,
                    LAMBDA n : [n EXCEPT !.label = finalContent]))
    ELSE IF s.editingConnection # <<>>
    THEN LET r == s.editingConnection[1]
             s1 == saveState(s)
         IN  cancelEdit(
                IF r.live
                THEN [s1 EXCEPT !.connections =
                        SetConn(@, r.id, [ConnByKey(s.connections, r.id)
                                            EXCEPT !.label = value])]
                ELSE s1)
    ELSE cancelEdit(s)

\* enterTextEditMode(node): the modal opens and the input listener is added
enterTextEditMode(s, nref) ==
    [s EXCEPT !.editingNode = <<nref>>,
              !.selectedNodes = <<nref>>,
              !.editInputHandler = TRUE,
              !.modalHidden = FALSE]

\* this._editInputHandler(e), the input listener of #editInput, with value
\* e.target.value
editInputHandlerCall(s, value) ==
    IF s.editInputHandler /\ s.editingNode # <<>>
    THEN LET text == IF value = "" THEN "Click to edit text" ELSE value
             dimsLive == computeTextBoxDimensions(text)
         IN  UpdateNodeAt(s, s.editingNode[1],
                LAMBDA n : [n EXCEPT !.label = text,
                                     !.width = dimsLive.width,
                                     !.height = dimsLive.height])
    ELSE s

---------------------------------------------------------------------------
(* Pointer handlers: app.js 243-258, 678-807, 888-1038 *)

newStroke(s, pos) ==
    [id |-> s.strokeClock + 1, tool |-> s.currentTool, points |-> <<pos>>,
     dragStartPoints |-> <<>>]

\* the drag start set-up of the select case
startDrag(s, pos) ==
    LET s1 == [s EXCEPT !.isDraggingElement = TRUE, !.dragOffset = pos]
        s2 == UpdateSelectedNodes(s1,
                LAMBDA n : [n EXCEPT !.dragStart = << <<n.x, n.y>> >>])
    IN  UpdateSelectedStrokes(s2,
                LAMBDA k : [k EXCEPT !.dragStartPoints = <<k.points>>])

mouseDownSelect(s, pos, clickedNode, clickedConn, clickedStroke) ==
    IF clickedNode # <<>> /\ isClickOnLabel(pos, clickedNode[1])
    THEN enterLabelEditMode(s, NodeRef(clickedNode[1].id))
    ELSE IF clickedNode # <<>>
    THEN startDrag(IF ~includesLive(s.selectedNodes, clickedNode[1].id)
                   THEN [s EXCEPT !.selectedNodes = <<NodeRef(clickedNode[1].id)>>,
                                  !.selectedStrokes = <<>>]
                   ELSE s, pos)
    ELSE IF clickedStroke # <<>>
    THEN startDrag(IF ~includesLive(s.selectedStrokes, clickedStroke[1].id)
                   THEN [s EXCEPT !.selectedStrokes = <<NodeRef(clickedStroke[1].id)>>,
                                  !.selectedNodes = <<>>]
                   ELSE s, pos)
    ELSE IF clickedConn # <<>>
    THEN [s EXCEPT !.selectedConnection = <<ConnRef(clickedConn[1])>>,
                   !.selectedNodes = <<>>,
                   !.selectedStrokes = <<>>]
    ELSE [s EXCEPT !.isSelecting = TRUE,
                   !.selectionRect = <<[startX |-> pos[1], startY |-> pos[2],
                                        endX |-> pos[1], endY |-> pos[2]]>>,
                   !.selectedNodes = <<>>,
                   !.selectedStrokes = <<>>]

mouseDownConnect(s, clickedNode) ==
    IF clickedNode # <<>>
    THEN IF s.connectingFrom = <<>>
         THEN [s EXCEPT !.connectingFrom = <<NodeRef(clickedNode[1].id)>>]
         ELSE IF ~(s.connectingFrom[1].live /\ s.connectingFrom[1].id = clickedNode[1].id)
         THEN LET s1 == createConnection(s, Deref(s.nodes, s.connectingFrom[1]),
                                         clickedNode[1])
                  s2 == IF s1.call.ret = "true" THEN setTool(s1, "select") ELSE s1
              IN  [s2 EXCEPT !.connectingFrom = <<>>]
         ELSE s
    ELSE deselectAll([s EXCEPT !.connectingFrom = <<>>])

mouseDownDelete(s, pos, clickedNode, clickedStroke) ==
    IF clickedNode # <<>>
    THEN setTool(deleteNode(saveState(s), clickedNode[1]), "select")
    ELSE IF clickedStroke # <<>>
    THEN LET s1 == saveState(s)
             keep == {i \in 1..Len(s.freehandStrokes) :
                        s.freehandStrokes[i].id # clickedStroke[1].id}
         IN  [DetachStrokes(s1, {clickedStroke[1].id}) EXCEPT
                !.freehandStrokes = SubSeqAt(s.freehandStrokes, keep, 1)]
    ELSE LET connection == getConnectionAt(s, pos)
         IN  IF connection # <<>>
             THEN setTool(deleteConnection(saveState(s), ConnRef(connection[1])),
                          "select")
             ELSE s

\* handleMouseDown(e) with pos the world position of the pointer.  No resize
\* handle lies on the rows the pointer positions are taken from, so
\* getResizeHandleAt answers null.
handleMouseDown(s, pos) ==
    LET s0 == [hideContextMenu(s) EXCEPT !.selectedConnection = <<>>,
                                         !.contextMenuConnection = <<>>]
    IN  IF s.currentTool = "pen" \/ s.currentTool = "eraser"
        THEN [s0 EXCEPT !.currentStroke = <<NodeRef(s.strokeClock + 1)>>,
                        !.freehandStrokes = Append(@, newStroke(s, pos)),
                        !.strokeClock = @ + 1]
        ELSE LET s1 == [s0 EXCEPT !.isPanning = FALSE,
                                  !.isDraggingElement = FALSE,
                                  !.isResizing = FALSE]
                 clickedNode == getNodeAt(s.nodes, pos)
                 clickedConn == getConnectionAt(s, pos)
                 clickedStroke == getStrokeAt(s.freehandStrokes, pos)
             IN  IF s.isCtrlPressed \/ s.currentTool = "pan"
                 THEN [s1 EXCEPT !.isPanning = TRUE]
                 ELSE CASE s.currentTool = "select" ->
                             mouseDownSelect(s1, pos, clickedNode, clickedConn,
                                             clickedStroke)
                        [] s.currentTool = "connect" ->
                             mouseDownConnect(s1, clickedNode)
                        [] s.currentTool = "delete" ->
                             mouseDownDelete(s1, pos, clickedNode, clickedStroke)
                        [] OTHER -> s1

\* the first index of the selection whose object has no dragStart (reading
\* node.dragStart.x throws there), Len + 1 when every object has one
firstWithoutDragStart(s) ==
    LET bad == {i \in 1..Len(s.selectedNodes) :
                    Deref(s.nodes, s.selectedNodes[i]).dragStart = <<>>}
    IN  IF bad = {} THEN Len(s.selectedNodes) + 1
        ELSE CHOOSE i \in bad : \A j \in bad : i <= j

moveNode(n, dx, dy) ==
    IF n.dragStart = <<>> THEN n
    ELSE [n EXCEPT !.x = n.dragStart[1][1] + dx, !.y = n.dragStart[1][2] + dy]

moveStroke(k, dx, dy) ==
    IF k.dragStartPoints = <<>> THEN k
    ELSE [k EXCEPT !.points = [i \in 1..Len(k.dragStartPoints[1]) |->
                                  <<k.dragStartPoints[1][i][1] + dx,
                                    k.dragStartPoints[1][i][2] + dy>>]]

\* the drag branch of handleMouseMove
dragSelection(s, pos) ==
    LET dx == pos[1] - s.dragOffset[1]
        dy == pos[2] - s.dragOffset[2]
        k == firstWithoutDragStart(s)
        moved == {s.selectedNodes[i].id :
                    i \in {j \in 1..(k - 1) : s.selectedNodes[j].live}}
        s1 == [s EXCEPT
                !.nodes = [i \in 1..Len(s.nodes) |->
                             IF s.nodes[i].id \in moved
                             THEN moveNode(s.nodes[i], dx, dy) ELSE s.nodes[i]],
                !.selectedNodes = [i \in 1..Len(s.selectedNodes) |->
                             IF s.selectedNodes[i].live \/ i >= k
                             THEN s.selectedNodes[i]
                             ELSE [s.selectedNodes[i] EXCEPT
                                     !.obj = <<moveNode(@[1], dx, dy)>>]]]
    IN  IF k <= Len(s.selectedNodes) THEN s1
        ELSE UpdateSelectedStrokes(s1, LAMBDA q : moveStroke(q, dx, dy))

\* this._currentStroke.points.push(pos)
extendStroke(s, pos) ==
    LET r == s.currentStroke[1]
    IN  IF r.live
        THEN [s EXCEPT !.freehandStrokes =
                SetObj(@, r.id, [NodeById(s.freehandStrokes, r.id)
                                    EXCEPT !.points = Append(@, pos)])]
        ELSE [s EXCEPT !.currentStroke =
                <<[r EXCEPT !.obj = <<[r.obj[1] EXCEPT !.points = Append(@, pos)]>>]>>]

\* handleMouseMove(e); the camera a pan moves is not part of the model
handleMouseMove(s, pos) ==
    IF s.currentStroke # <<>> THEN extendStroke(s, pos)
    ELSE IF s.isPanning THEN s
    ELSE IF s.isResizing THEN s
    ELSE IF s.isSelecting
    THEN [s EXCEPT !.selectionRect = <<[@[1] EXCEPT !.endX = pos[1], !.endY = pos[2]]>>]
    ELSE IF s.isDraggingElement
            /\ (Len(s.selectedNodes) > 0 \/ Len(s.selectedStrokes) > 0)
    THEN dragSelection(s, pos)
    ELSE s

selectNodesInRect(s) ==
    IF s.selectionRect = <<>> THEN s
    ELSE LET r == s.selectionRect[1]
             x1 == Min2(r.startX, r.endX)
             y1 == Min2(r.startY, r.endY)
             x2 == Max2(r.startX, r.endX)
             y2 == Max2(r.startY, r.endY)
             inN == {i \in 1..Len(s.nodes) :
                        /\ s.nodes[i].x > x1 /\ s.nodes[i].x < x2
                        /\ s.nodes[i].y > y1 /\ s.nodes[i].y < y2}
             inS == {i \in 1..Len(s.freehandStrokes) :
                        \E k \in 1..Len(s.freehandStrokes[i].points) :
                            LET pt == s.freehandStrokes[i].points[k]
                            IN  pt[1] > x1 /\ pt[1] < x2 /\ pt[2] > y1 /\ pt[2] < y2}
             selN == SubSeqAt(s.nodes, inN, 1)
             selS == SubSeqAt(s.freehandStrokes, inS, 1)
         IN  [s EXCEPT
                !.selectedNodes = [i \in 1..Len(selN) |-> NodeRef(selN[i].id)],
                !.selectedStrokes = [i \in 1..Len(selS) |-> NodeRef(selS[i].id)]]

\* handleMouseUp(e), the listener of the canvas
handleMouseUp(s) ==
    IF s.currentStroke # <<>>
    THEN saveState([s EXCEPT !.currentStroke = <<>>])
    ELSE LET wasInteracting == s.isPanning \/ s.isDraggingElement
                                 \/ s.isResizing \/ s.isSelecting
             s1 == [s EXCEPT !.isPanning = FALSE, !.isDraggingElement = FALSE,
                             !.isResizing = FALSE]
             s2 == IF s1.isSelecting
                   THEN [selectNodesInRect([s1 EXCEPT !.isSelecting = FALSE])
                            EXCEPT !.selectionRect = <<>>]
                   ELSE s1
             s3 == IF wasInteracting
                      /\ (Len(s2.selectedNodes) > 0 \/ Len(s2.selectedStrokes) > 0)
                   THEN saveState(s2) ELSE s2
         IN  IF s3.currentTool = "pan" THEN setTool(s3, "select") ELSE s3

\* the mouseup listener of the document, app.js 243-258
documentMouseUp(s) ==
    LET s1 == IF s.isPanning
              THEN LET p == [s EXCEPT !.isPanning = FALSE]
                   IN  IF p.currentTool = "pan" THEN setTool(p, "select") ELSE p
              ELSE s
    IN  [s1 EXCEPT !.isDraggingElement = FALSE, !.isResizing = FALSE]

\* showContextMenu(x, y): which group of items it displays
showContextMenu(s) ==
    [s EXCEPT !.menu = IF s.contextMenuConnection # <<>> THEN "connection"
                       ELSE IF Len(s.selectedNodes) > 1 THEN "multi"
                       ELSE IF Len(s.selectedNodes) = 1 THEN "single"
                       ELSE "empty"]

\* handleRightClick(e), the contextmenu listener of the canvas
handleRightClick(s, pos) ==
    LET s1 == [s EXCEPT !.isPanning = FALSE, !.isDraggingElement = FALSE,
                        !.isResizing = FALSE]
        clickedNode == getNodeAt(s.nodes, pos)
        clickedConn == getConnectionAt(s, pos)
    IN  IF clickedNode # <<>>
        THEN showContextMenu(
                [s1 EXCEPT !.selectedNodes =
                                IF ~includesLive(@, clickedNode[1].id)
                                THEN <<NodeRef(clickedNode[1].id)>> ELSE @,
                           !.contextMenuNode = <<NodeRef(clickedNode[1].id)>>,
                           !.contextMenuConnection = <<>>,
                           !.selectedConnection = <<>>])
        ELSE IF clickedConn # <<>>
        THEN showContextMenu(
                [s1 EXCEPT !.selectedNodes = <<>>,
                           !.selectedConnection = <<ConnRef(clickedConn[1])>>,
                           !.contextMenuConnection = <<ConnRef(clickedConn[1])>>,
                           !.contextMenuNode = <<>>])
        ELSE showContextMenu(
                [s1 EXCEPT !.selectedNodes = <<>>,
                           !.contextMenuNode = <<>>,
                           !.contextMenuConnection = <<>>,
                           !.selectedConnection = <<>>])

---------------------------------------------------------------------------
(* Context menu items, clipboard, clear: app.js 435-458, 1886-2119 *)

addConnectedMaterial(s) ==
    IF s.contextMenuNode = <<>> THEN s
    ELSE LET base == Deref(s.nodes, s.contextMenuNode[1])
             s1 == addNode(saveState(s), "material",
                           <<base.x + ConnectedOffset, base.y>>, <<>>)
             s2 == IF base.type = "activity"
                   THEN createConnection(s1, base, LastNode(s1)) ELSE s1
         IN  hideContextMenu(s2)

addConnectedActivity(s) ==
    IF s.contextMenuNode = <<>> THEN s
    ELSE LET base == Deref(s.nodes, s.contextMenuNode[1])
             s1 == addNode(saveState(s), "activity",
                           <<base.x + ConnectedOffset, base.y>>, <<>>)
             s2 == IF base.type = "material"
                   THEN createConnection(s1, base, LastNode(s1)) ELSE s1
         IN  hideContextMenu(s2)

editLabel(s) ==
    IF s.contextMenuNode # <<>>
    THEN hideContextMenu(enterLabelEditMode(s, s.contextMenuNode[1]))
    ELSE IF s.contextMenuConnection # <<>>
    THEN hideContextMenu(enterConnectionEditMode(s, s.contextMenuConnection[1]))
    ELSE s

deleteSelectedNode(s) ==
    LET s1 == IF s.contextMenuNode # <<>>
              THEN LET d == deleteNode(saveState(s), [id |-> s.contextMenuNode[1].id])
                       keep == {i \in 1..Len(d.selectedNodes) :
                                    d.selectedNodes[i].id # s.contextMenuNode[1].id}
                   IN  [d EXCEPT !.selectedNodes = SubSeqAt(@, keep, 1)]
              ELSE s
    IN  hideContextMenu([s1 EXCEPT !.contextMenuNode = <<>>])

deleteConnectionFromContext(s) ==
    IF s.contextMenuConnection # <<>>
    THEN LET c == s.contextMenuConnection[1]
             d == deleteConnection(saveState(s), c)
             \* selectedConnection === contextMenuConnection: the same object
             same == s.selectedConnection # <<>>
                     /\ s.selectedConnection[1].live = c.live
                     /\ s.selectedConnection[1].id = c.id
         IN  hideContextMenu(
                [d EXCEPT !.selectedConnection = IF same THEN <<>> ELSE @,
                          !.contextMenuConnection = <<>>])
    ELSE hideContextMenu(s)

connectFromNode(s) ==
    hideContextMenu(
        IF s.contextMenuNode # <<>>
        THEN setTool([s EXCEPT !.connectingFrom = s.contextMenuNode], "connect")
        ELSE s)

\* idMap[oldId] after the forEach over origs that hands out the ids
\* first + 1, first + 2, ...: the last object with an id decides
idMapOf(origs, first, oldId) ==
    LET hits == {i \in 1..Len(origs) : origs[i].id = oldId}
    IN  first + (CHOOSE i \in hits : \A j \in hits : j <= i)

\* a variant: the copies keep the ids of the originals
copiesOf_KeepIds(origs, first) ==
    [i \in 1..Len(origs) |->
        [origs[i] EXCEPT !.x = @ + PasteOffset, !.y = @ + PasteOffset]]

\* the copies of origs, moved by the paste offset, with fresh ids
copiesOf(origs, first) ==
    [i \in 1..Len(origs) |->
        [origs[i] EXCEPT !.id = first + i, !.x = @ + PasteOffset, !.y = @ + PasteOffset]]

\* the edges of cs between copied nodes, re-targeted to the copies
remappedConns(cs, origs, first) ==
    LET ids == NodeIds(origs)
        keep == {i \in 1..Len(cs) : cs[i].from \in ids /\ cs[i].to \in ids}
        kept == SubSeqAt(cs, keep, 1)
    IN  [i \in 1..Len(kept) |->
            [from |-> idMapOf(origs, first, kept[i].from),
             to |-> idMapOf(origs, first, kept[i].to),
             label |-> kept[i].label]]

duplicateSelection(s) ==
    IF Len(s.selectedNodes) = 0 THEN s
    ELSE LET s1 == saveState(s)
             origs == [i \in 1..Len(s.selectedNodes) |->
                          Deref(s.nodes, s.selectedNodes[i])]
             newNodes == copiesOf(origs, s.nodeCounter)
         IN  hideContextMenu(
                [s1 EXCEPT
                    !.nodeCounter = @ + Len(origs),
                    !.nodes = @ \o newNodes,
                    !.connections = @ \o remappedConns(s.connections, origs,
                                                       s.nodeCounter),
                    !.selectedNodes = [i \in 1..Len(newNodes) |->
                                          NodeRef(newNodes[i].id)]])

copySelectionToClipboard(s) ==
    IF Len(s.selectedNodes) = 0 THEN s
    ELSE [s EXCEPT !.clipboard = <<clipOf(s)>>, !.internalClipboard = <<clipOf(s)>>]

\* const clip = this.internalClipboard || this.stateManager.clipboard
clipToPaste(s) ==
    IF s.internalClipboard # <<>> THEN s.internalClipboard ELSE s.clipboard

pasteFromClipboard(s) ==
    LET clip == clipToPaste(s)
    IN  IF clip = <<>> \/ Len(clip[1].nodes) = 0 THEN s
        ELSE LET s1 == saveState(s)
                 newNodes == copiesOf(clip[1].nodes, s.nodeCounter)
             IN  saveState(
                    [s1 EXCEPT
                        !.nodeCounter = @ + Len(newNodes),
                        !.nodes = @ \o newNodes,
                        !.connections = @ \o remappedConns(clip[1].connections,
                                                           clip[1].nodes, s.nodeCounter),
                        !.selectedNodes = [i \in 1..Len(newNodes) |->
                                              NodeRef(newNodes[i].id)]])

deleteSelection(s) == hideContextMenu(deleteSelected(s))

clear(s) ==
    [DetachAll(saveState(s)) EXCEPT
        !.nodes = <<>>,
        !.connections = <<>>,
        !.selectedNodes = <<>>,
        !.freehandStrokes = <<>>,
        !.selectedStrokes = <<>>,
        !.nodeCounter = 0]

\* this.sampleData.  A node id n > 0 of the model is the string node_<n>; the
\* ids of the sample, "m1", "a1", "m2", "a2", "m3", are -1 .. -5 in this order;
\* the id 0 is a string that starts with node_ and goes on with no digit
sampleData ==
    [nodes |-> <<
        [id |-> -1, type |-> "material", shape |-> "triangle", label |-> "RM1, Plant",
         x |-> 100, y |-> 150, width |-> 0, height |-> 0, dragStart |-> <<>>],
        [id |-> -2, type |-> "activity", shape |-> "circle", label |-> "BOM",
         x |-> 250, y |-> 150, width |-> 0, height |-> 0, dragStart |-> <<>>],
        [id |-> -3, type |-> "material", shape |-> "triangle", label |-> "FG1, Plant",
         x |-> 400, y |-> 150, width |-> 0, height |-> 0, dragStart |-> <<>>],
        [id |-> -4, type |-> "activity", shape |-> "circle", label |-> "Distribution",
         x |-> 550, y |-> 150, width |-> 0, height |-> 0, dragStart |-> <<>>],
        [id |-> -5, type |-> "material", shape |-> "triangle", label |-> "FG1, DC",
         x |-> 700, y |-> 150, width |-> 0, height |-> 0, dragStart |-> <<>>] >>,
     connections |-> <<
        [from |-> -1, to |-> -2, label |-> ""], [from |-> -2, to |-> -3, label |-> ""],
        [from |-> -3, to |-> -4, label |-> ""], [from |-> -4, to |-> -5, label |-> ""] >>]

\* loadExample(): the sample has no text box, so no node is resized
loadExample(s) ==
    [DetachAll(saveState(s)) EXCEPT
        !.nodes = sampleData.nodes,
        !.connections = sampleData.connections,
        !.selectedNodes = <<>>,
        !.freehandStrokes = <<>>,
        !.selectedStrokes = <<>>,
        !.nodeCounter = Len(sampleData.nodes)]

---------------------------------------------------------------------------
(* NLPParser and the generator: app.js 49-173, 1711-1814 *)

\* the description is the sequence of its words: lower case, commas removed,
\* split at white space

quantityMap(w) ==
    CASE w = "one" -> 1 [] w = "a" -> 1 [] w = "two" -> 2 [] w = "three" -> 3
      [] w = "four" -> 4 [] w = "five" -> 5 [] w = "multiple" -> 3
      [] w = "several" -> 3 [] w = "many" -> 3 [] OTHER -> 0

\* parseInt(w) for the number words of the model; -1 is NaN
parseIntWord(w) ==
    CASE w = "0" -> 0 [] w = "1" -> 1 [] w = "2" -> 2 [] w = "3" -> 3 [] OTHER -> -1

materialKeywords ==
    << [words |-> <<"raw", "material">>, type |-> "material", label |-> "Raw Material"],
       [words |-> <<"raw", "materials">>, type |-> "material", label |-> "Raw Materials"],
       [words |-> <<"component">>, type |-> "material", label |-> "Component"],
       [words |-> <<"components">>, type |-> "material", label |-> "Components"],
       [words |-> <<"part">>, type |-> "material", label |-> "Part"],
       [words |-> <<"parts">>, type |-> "material", label |-> "Parts"],
       [words |-> <<"ingredient">>, type |-> "material", label |-> "Ingredient"],
       [words |-> <<"ingredients">>, type |-> "material", label |-> "Ingredients"],
       [words |-> <<"finished", "good">>, type |-> "material", label |-> "Finished Good"],
       [words |-> <<"finished", "goods">>, type |-> "material", label |-> "Finished Goods"],
       [words |-> <<"finished", "product">>, type |-> "material", label |-> "Finished Product"],
       [words |-> <<"finished", "products">>, type |-> "material", label |-> "Finished Products"],
       [words |-> <<"product">>, type |-> "material", label |-> "Product"],
       [words |-> <<"products">>, type |-> "material", label |-> "Products"],
       [words |-> <<"item">>, type |-> "material", label |-> "Item"],
       [words |-> <<"items">>, type |-> "material", label |-> "Items"],
       [words |-> <<"good">>, type |-> "material", label |-> "Good"],
       [words |-> <<"goods">>, type |-> "material", label |-> "Goods"],
       [words |-> <<"inventory">>, type |-> "material", label |-> "Inventory"],
       [words |-> <<"materials">>, type |-> "material", label |-> "Materials"],
       [words |-> <<"material">>, type |-> "material", label |-> "Material"],
       [words |-> <<"supplier">>, type |-> "material", label |-> "Supplier"],
       [words |-> <<"suppliers">>, type |-> "material", label |-> "Suppliers"],
       [words |-> <<"vendor">>, type |-> "material", label |-> "Vendor"],
       [words |-> <<"vendors">>, type |-> "material", label |-> "Vendors"],
       [words |-> <<"customer">>, type |-> "material", label |-> "Customer"],
       [words |-> <<"customers">>, type |-> "material", label |-> "Customers"],
       [words |-> <<"store">>, type |-> "material", label |-> "Store"],
       [words |-> <<"stores">>, type |-> "material", label |-> "Stores"],
       [words |-> <<"warehouse">>, type |-> "material", label |-> "Warehouse"],
       [words |-> <<"warehouses">>, type |-> "material", label |-> "Warehouses"],
       [words |-> <<"distribution", "center">>, type |-> "material", label |-> "Distribution Center"],
       [words |-> <<"dc">>, type |-> "material", label |-> "Dc"],
       [words |-> <<"hub">>, type |-> "material", label |-> "Hub"],
       [words |-> <<"hubs">>, type |-> "material", label |-> "Hubs"],
       [words |-> <<"depot">>, type |-> "material", label |-> "Depot"],
       [words |-> <<"depots">>, type |-> "material", label |-> "Depots"],
       [words |-> <<"plant">>, type |-> "material", label |-> "Plant"] >>

activityKeywords ==
    << [words |-> <<"manufacturing">>, type |-> "activity", label |-> "Manufacturing"],
       [words |-> <<"assembly">>, type |-> "activity", label |-> "Assembly"],
       [words |-> <<"processing">>, type |-> "activity", label |-> "Processing"],
       [words |-> <<"production">>, type |-> "activity", label |-> "Production"],
       [words |-> <<"produce">>, type |-> "activity", label |-> "Produce"],
       [words |-> <<"create">>, type |-> "activity", label |-> "Create"],
       [words |-> <<"make">>, type |-> "activity", label |-> "Make"],
       [words |-> <<"build">>, type |-> "activity", label |-> "Build"],
       [words |-> <<"distribution">>, type |-> "activity", label |-> "Distribution"],
       [words |-> <<"shipping">>, type |-> "activity", label |-> "Shipping"],
       [words |-> <<"delivery">>, type |-> "activity", label |-> "Delivery"],
       [words |-> <<"logistics">>, type |-> "activity", label |-> "Logistics"],
       [words |-> <<"transportation">>, type |-> "activity", label |-> "Transportation"],
       [words |-> <<"distribute">>, type |-> "activity", label |-> "Distribute"],
       [words |-> <<"ship">>, type |-> "activity", label |-> "Ship"],
       [words |-> <<"deliver">>, type |-> "activity", label |-> "Deliver"],
       [words |-> <<"consumed", "in", "a", "bom">>, type |-> "activity", label |-> "Consumed In A Bom"],
       [words |-> <<"consumed">>, type |-> "activity", label |-> "Consumed"],
       [words |-> <<"sent">>, type |-> "activity", label |-> "Sent"],
       [words |-> <<"transported">>, type |-> "activity", label |-> "Transported"],
       [words |-> <<"shipped">>, type |-> "activity", label |-> "Shipped"],
       [words |-> <<"truck">>, type |-> "activity", label |-> "Truck"] >>

RECURSIVE byWordCount(_, _)
\* the keywords of q with n words or fewer, longest first, equal lengths in
\* the order of q (Array.prototype.sort is stable)
byWordCount(q, n) ==
    IF n = 0 THEN <<>>
    ELSE SelectSeq(q, LAMBDA k : Len(k.words) = n) \o byWordCount(q, n - 1)

\* the keywords with the one-word keywords first
allKeywords_ShortestFirst ==
    SelectSeq(materialKeywords \o activityKeywords, LAMBDA k : Len(k.words) = 1)
        \o SelectSeq(materialKeywords \o activityKeywords, LAMBDA k : Len(k.words) > 1)

allKeywords == byWordCount(materialKeywords \o activityKeywords, 4)

\* words.slice(i, i + n).join(' ') === keyword, i counted from 1
matchesAt(words, i, k) ==
    /\ i + Len(k.words) - 1 <= Len(words)
    /\ \A j \in 1..Len(k.words) : words[i + j - 1] = k.words[j]

RECURSIVE tokenizeFrom(_, _)
tokenizeFrom(words, i) ==
    IF i > Len(words) THEN <<>>
    ELSE LET isQty == quantityMap(words[i]) # 0 \/ parseIntWord(words[i]) # -1
             quantity == IF ~isQty THEN 1
                         ELSE IF quantityMap(words[i]) # 0 THEN quantityMap(words[i])
                         ELSE parseIntWord(words[i])
             j == IF isQty THEN i + 1 ELSE i
         IN  IF j > Len(words) THEN <<>>
             ELSE LET found == {m \in 1..Len(allKeywords) :
                                    matchesAt(words, j, allKeywords[m])}
                  IN  IF found = {} THEN tokenizeFrom(words, j + 1)
                      ELSE LET k == allKeywords[CHOOSE m \in found :
                                                    \A o \in found : m <= o]
                           IN  <<[type |-> k.type, label |-> k.label,
                                  quantity |-> quantity]>>
                               \o tokenizeFrom(words, j + Len(k.words))

tokenize(words) == tokenizeFrom(words, 1)

\* parseMovement(text) is null for a text without the word "from": fromMatch
\* is null, so is source; parse(text) then falls back to tokenize
parse(words) == tokenize(words)

createConnectionDirect(s, fromNode, toNode) ==
    [s EXCEPT !.connections = Append(@, [from |-> fromNode.id, to |-> toNode.id,
                                         label |-> ""])]

RECURSIVE addColumn(_, _, _, _)
\* the fan-out loop of buildDiagramFromTokens, from copy i of the token
addColumn(s, token, currentX, i) ==
    IF i >= token.quantity THEN s
    ELSE LET yOffset == ((token.quantity - 1) * 120) \div 2
             yPos == 250 + (i * 120) - yOffset
             label == IF token.quantity > 1
                      THEN token.label \o " " \o ToString(i + 1) ELSE token.label
         IN  addColumn(addNode(s, token.type, <<currentX, yPos>>, <<label>>),
                       token, currentX, i + 1)

\* the two loops linking the first node of one column to the first of the next
connectColumns_FirstPair(s, lastNodes, newNodes, k) ==
    IF canConnect(lastNodes[1], newNodes[1])
    THEN createConnectionDirect(s, lastNodes[1], newNodes[1]) ELSE s

RECURSIVE connectColumns(_, _, _, _)
\* the two nested loops over lastNodes and newNodes, from pair number k
connectColumns(s, lastNodes, newNodes, k) ==
    IF k >= Len(lastNodes) * Len(newNodes) THEN s
    ELSE LET fromNode == lastNodes[(k \div Len(newNodes)) + 1]
             toNode == newNodes[(k % Len(newNodes)) + 1]
         IN  connectColumns(
                IF canConnect(fromNode, toNode)
                THEN createConnectionDirect(s, fromNode, toNode) ELSE s,
                lastNodes, newNodes, k + 1)

RECURSIVE buildFrom_NoSkip(_, _, _, _, _, _)
\* the loop of buildDiagramFromTokens without the test of the last kind
buildFrom_NoSkip(s, tokens, t, lastNodes, lastNodeType, currentX) ==
    IF t > Len(tokens) THEN s
    ELSE LET s1 == addColumn(s, tokens[t], currentX, 0)
             newNodes == SubSeq(s1.nodes, Len(s.nodes) + 1, Len(s1.nodes))
             s2 == IF Len(lastNodes) > 0 /\ Len(newNodes) > 0
                   THEN connectColumns(s1, lastNodes, newNodes, 0) ELSE s1
         IN  buildFrom_NoSkip(s2, tokens, t + 1, newNodes, tokens[t].type,
                              currentX + 200)

RECURSIVE buildFrom(_, _, _, _, _, _)
\* the loop of buildDiagramFromTokens, from token t
buildFrom(s, tokens, t, lastNodes, lastNodeType, currentX) ==
    IF t > Len(tokens) THEN s
    ELSE IF lastNodeType # "" /\ tokens[t].type = lastNodeType
    THEN buildFrom(s, tokens, t + 1, lastNodes, lastNodeType, currentX)
    ELSE LET s1 == addColumn(s, tokens[t], currentX, 0)
             newNodes == SubSeq(s1.nodes, Len(s.nodes) + 1, Len(s1.nodes))
             s2 == IF Len(lastNodes) > 0 /\ Len(newNodes) > 0
                   THEN connectColumns(s1, lastNodes, newNodes, 0) ELSE s1
         IN  buildFrom(s2, tokens, t + 1, newNodes, tokens[t].type, currentX + 200)

buildDiagramFromTokens(s, tokens) == buildFrom(s, tokens, 1, <<>>, "", 150)

\* generateFromNL() with words the words of the trimmed #nlInput (<<>> when
\* the input is empty)
generateFromNL(s, words) ==
    IF words = <<>> THEN s
    ELSE LET s1 == [DetachAll(saveState(s)) EXCEPT
                        !.nodes = <<>>,
                        !.connections = <<>>,
                        !.selectedNodes = <<>>,
                        !.selectedStrokes = <<>>,
                        !.freehandStrokes = <<>>,
                        !.connectingFrom = <<>>,
                        !.nodeCounter = 0]
             result == parse(words)
         IN  IF Len(result) = 0 THEN undo(s1)
             ELSE buildDiagramFromTokens(s1, result)

---------------------------------------------------------------------------
(* Files *)

\* node.id.startsWith('node_') and parseInt(node.id.split('_')[1], 10): <<n>>
\* for the number n, <<>> for an id the loop skips (no prefix, or NaN)
idNumber(id) == IF id > 0 THEN <<id>> ELSE <<>>

\* the node counter taken from the number of loaded nodes
maxIdFrom_Count(ns, maxId) == maxId + Len(ns)

RECURSIVE maxIdFrom(_, _)
\* the forEach of handleFileLoad over the loaded nodes, from maxId
maxIdFrom(ns, maxId) ==
    IF ns = <<>> THEN maxId
    ELSE LET num == idNumber(Head(ns).id)
         IN  maxIdFrom(Tail(ns),
                       IF num # <<>> /\ num[1] > maxId THEN num[1] ELSE maxId)

\* a load that empties the diagram before it reads the file
handleFileLoad_ClearFirst(s, file) ==
    [clear(s) EXCEPT !.call = CallOf("showStatus", 0, 0,
                                     IF file = <<>> THEN "error" ELSE "success")]

\* handleFileLoad(e), with reader.onload: file is <<>> for a text on which
\* JSON.parse throws and <<data>> for a text it parses to data, an object
\* with the arrays nodes, connections and freehandStrokes
handleFileLoad(s, file) ==
    LET s1 == saveState(s)
    IN  IF file = <<>>
        THEN [s1 EXCEPT !.call = CallOf("showStatus", 0, 0, "error")]
        ELSE LET data == file[1]
                 dims(n) == computeTextBoxDimensions(
                                IF n.label = "" THEN "Click to edit text" ELSE n.label)
             IN  [DetachAll(s1) EXCEPT
                    !.nodes = [i \in 1..Len(data.nodes) |->
                                  IF data.nodes[i].type = "textbox"
                                  THEN [data.nodes[i] EXCEPT
                                           !.width = dims(data.nodes[i]).width,
                                           !.height = dims(data.nodes[i]).height]
                                  ELSE data.nodes[i]],
                    !.connections = data.connections,
                    !.freehandStrokes = data.freehandStrokes,
                    !.nodeCounter = maxIdFrom(data.nodes, 0),
                    !.selectedNodes = <<>>,
                    !.selectedStrokes = <<>>,
                    !.call = CallOf("showStatus", 0, 0, "success")]

---------------------------------------------------------------------------
(* The editor as a state machine *)

\* the editor state a handler starts from
Cur ==
    [nodes |-> nodes, connections |-> connections, nodeCounter |-> nodeCounter,
     freehandStrokes |-> freehandStrokes, history |-> history,
     currentIndex |-> currentIndex, clipboard |-> clipboard,
     internalClipboard |-> internalClipboard, selectedNodes |-> selectedNodes,
     selectedStrokes |-> selectedStrokes, selectedConnection |-> selectedConnection,
     connectingFrom |-> connectingFrom, contextMenuNode |-> contextMenuNode,
     contextMenuConnection |-> contextMenuConnection, editingNode |-> editingNode,
     editingConnection |-> editingConnection, currentTool |-> currentTool,
     isPanning |-> isPanning, isDraggingElement |-> isDraggingElement,
     isResizing |-> isResizing, isSelecting |-> isSelecting,
     selectionRect |-> selectionRect, dragOffset |-> dragOffset,
     currentStroke |-> currentStroke, isCtrlPressed |-> isCtrlPressed,
     menu |-> menu, modalHidden |-> modalHidden,
     editInputHandler |-> editInputHandler, strokeClock |-> strokeClock,
     call |-> NoCall]

\* the handlers of an event returned with the editor in state t
ApplyEditor(t) ==
    /\ nodes' = t.nodes
    /\ connections' = t.connections
    /\ nodeCounter' = t.nodeCounter
    /\ freehandStrokes' = t.freehandStrokes
    /\ history' = t.history
    /\ currentIndex' = t.currentIndex
    /\ clipboard' = t.clipboard
    /\ internalClipboard' = t.internalClipboard
    /\ selectedNodes' = t.selectedNodes
    /\ selectedStrokes' = t.selectedStrokes
    /\ selectedConnection' = t.selectedConnection
    /\ connectingFrom' = t.connectingFrom
    /\ contextMenuNode' = t.contextMenuNode
    /\ contextMenuConnection' = t.contextMenuConnection
    /\ editingNode' = t.editingNode
    /\ editingConnection' = t.editingConnection
    /\ currentTool' = t.currentTool
    /\ isPanning' = t.isPanning
    /\ isDraggingElement' = t.isDraggingElement
    /\ isResizing' = t.isResizing
    /\ isSelecting' = t.isSelecting
    /\ selectionRect' = t.selectionRect
    /\ dragOffset' = t.dragOffset
    /\ currentStroke' = t.currentStroke
    /\ isCtrlPressed' = t.isCtrlPressed
    /\ menu' = t.menu
    /\ modalHidden' = t.modalHidden
    /\ editInputHandler' = t.editInputHandler
    /\ strokeClock' = t.strokeClock
    /\ lastCall' = t.call

\* the same, for the specifications that leave the redraws out
Apply(t) == ApplyEditor(t) /\ UNCHANGED <<isRendering, frames, mem>>

\* the variables hold the editor state t
Load(t) ==
    /\ nodes = t.nodes
    /\ connections = t.connections
    /\ nodeCounter = t.nodeCounter
    /\ freehandStrokes = t.freehandStrokes
    /\ history = t.history
    /\ currentIndex = t.currentIndex
    /\ clipboard = t.clipboard
    /\ internalClipboard = t.internalClipboard
    /\ selectedNodes = t.selectedNodes
    /\ selectedStrokes = t.selectedStrokes
    /\ selectedConnection = t.selectedConnection
    /\ connectingFrom = t.connectingFrom
    /\ contextMenuNode = t.contextMenuNode
    /\ contextMenuConnection = t.contextMenuConnection
    /\ editingNode = t.editingNode
    /\ editingConnection = t.editingConnection
    /\ currentTool = t.currentTool
    /\ isPanning = t.isPanning
    /\ isDraggingElement = t.isDraggingElement
    /\ isResizing = t.isResizing
    /\ isSelecting = t.isSelecting
    /\ selectionRect = t.selectionRect
    /\ dragOffset = t.dragOffset
    /\ currentStroke = t.currentStroke
    /\ isCtrlPressed = t.isCtrlPressed
    /\ menu = t.menu
    /\ modalHidden = t.modalHidden
    /\ editInputHandler = t.editInputHandler
    /\ strokeClock = t.strokeClock
    /\ lastCall = t.call
    /\ isRendering = FALSE
    /\ frames = [pending |-> 0, calls |-> 0, lastCalls |-> 0, lastRenders |-> 0]
    /\ mem = constructedMem

\* new StateManager()
newStateManager == [history |-> <<>>, currentIndex |-> -1, clipboard |-> <<>>]

\* the fields the constructor of SupplyChainCanvas assigns
constructed ==
    [nodes |-> <<>>, connections |-> <<>>, nodeCounter |-> 0,
     freehandStrokes |-> <<>>, history |-> newStateManager.history,
     currentIndex |-> newStateManager.currentIndex,
     clipboard |-> newStateManager.clipboard,
     internalClipboard |-> <<>>, selectedNodes |-> <<>>,
     selectedStrokes |-> <<>>, selectedConnection |-> <<>>,
     connectingFrom |-> <<>>, contextMenuNode |-> <<>>,
     contextMenuConnection |-> <<>>, editingNode |-> <<>>,
     editingConnection |-> <<>>, currentTool |-> "select",
     isPanning |-> FALSE, isDraggingElement |-> FALSE,
     isResizing |-> FALSE, isSelecting |-> FALSE,
     selectionRect |-> <<>>, dragOffset |-> <<0, 0>>,
     currentStroke |-> <<>>, isCtrlPressed |-> FALSE,
     menu |-> "hidden", modalHidden |-> TRUE, editInputHandler |-> FALSE,
     strokeClock |-> 0,
     call |-> NoCall]

\* saveInitialState(), the last state change of the constructor
saveInitialState(s) == saveState(s)

\* the snapshot saveInitialState() pushes
emptyState == [nodes |-> <<>>, connections |-> <<>>, nodeCounter |-> 0,
               freehandStrokes |-> <<>>]

Init == Load(saveInitialState(constructed))

\* the part of the behaviours the editor specification explores
Bounded(t) ==
    /\ t.nodeCounter <= MaxCounter
    /\ Len(t.nodes) <= MaxCounter
    /\ Len(t.history) <= MaxHistLen
    /\ \A i \in 1..Len(t.nodes) : t.nodes[i].x <= MaxX /\ t.nodes[i].y <= MaxY
    /\ t.strokeClock <= MaxStrokes
    /\ \A i \in 1..Len(t.freehandStrokes) :
            Len(t.freehandStrokes[i].points) <= MaxPoints

\* the click listener of the document: a click outside the canvas and the
\* context menu hides a displayed menu
documentClick(s) == IF s.menu # "hidden" THEN hideContextMenu(s) ELSE s

\* the drop listener of the canvas after a dragstart on the palette button of type
dropHandler(s, type, pos) == addNode(saveState(s), type, pos, <<>>)

\* handleDoubleClick(e) at pos
handleDoubleClick(s, pos) ==
    LET clickedNode == getNodeAt(s.nodes, pos)
        clickedConn == getConnectionAt(s, pos)
    IN  IF clickedNode # <<>>
        THEN IF clickedNode[1].type = "textbox"
             THEN enterTextEditMode(s, NodeRef(clickedNode[1].id))
             ELSE enterLabelEditMode(s, NodeRef(clickedNode[1].id))
        ELSE IF clickedConn # <<>>
        THEN enterConnectionEditMode(s, ConnRef(clickedConn[1]))
        ELSE s

\* a press and release of the left button at pos: mousedown, then mouseup at
\* the canvas and the document; when the press opened the edit modal the
\* release reaches the document alone
clickGesture(s, pos) ==
    LET d == handleMouseDown(s, pos)
    IN  IF d.modalHidden THEN documentMouseUp(handleMouseUp(d))
        ELSE documentMouseUp(d)

\* two clicks at pos and the dblclick event that follows them; a click that
\* opened the edit modal ends the gesture
doubleClickGesture(s, pos) ==
    LET c1 == clickGesture(s, pos)
        c2 == clickGesture(c1, pos)
    IN  IF ~c1.modalHidden THEN c1
        ELSE IF ~c2.modalHidden THEN c2
        ELSE handleDoubleClick(c2, pos)

\* the left button pressed at pos, the pointer moved to target, the button released
dragGesture(s, pos, target) ==
    LET d == handleMouseDown(s, pos)
    IN  IF d.modalHidden
        THEN documentMouseUp(handleMouseUp(handleMouseMove(d, target)))
        ELSE documentMouseUp(d)

\* a press of the right button at pos: mousedown, contextmenu and mouseup
\* reach the canvas, the contextmenu event before the release (early) or
\* after it, as the platform has it
rightClickGesture(s, pos, early) ==
    IF early
    THEN documentMouseUp(handleMouseUp(handleRightClick(handleMouseDown(s, pos), pos)))
    ELSE handleRightClick(documentMouseUp(handleMouseUp(handleMouseDown(s, pos))), pos)

\* handleKeyDown for the Control key
keyDownControl(s) == [s EXCEPT !.isCtrlPressed = TRUE]

\* the Escape case of handleKeyDown
keyEscape(s) == setTool(deselectAll(s), "select")

\* the items showContextMenu displays for a menu of kind s.menu.  The classes
\* of the items are those of the page's markup: addConnectedMaterial,
\* addConnectedActivity, editLabel, deleteNode and connectFromNode are
\* single-node items, duplicateSelection and deleteSelection multi-node items.
itemShown(s, item) ==
    CASE item = "addConnectedMaterial" ->
            /\ s.menu = "single" /\ s.contextMenuNode # <<>>
            /\ Deref(s.nodes, s.contextMenuNode[1]).type = "activity"
      [] item = "addConnectedActivity" ->
            /\ s.menu = "single" /\ s.contextMenuNode # <<>>
            /\ Deref(s.nodes, s.contextMenuNode[1]).type = "material"
      [] item \in {"editLabel", "deleteNode", "connectFromNode"} -> s.menu = "single"
      [] item \in {"duplicateSelection", "deleteSelection"} -> s.menu = "multi"
      [] item = "copySelection" -> s.menu \in {"single", "multi"}
      [] item = "pasteSelection" -> s.menu = "empty"
      [] item = "deleteConnection" -> s.menu = "connection"
      [] OTHER -> FALSE

\* the click listener of a context menu item
menuItem(s, item) ==
    CASE item = "addConnectedMaterial" -> addConnectedMaterial(s)
      [] item = "addConnectedActivity" -> addConnectedActivity(s)
      [] item = "editLabel" -> editLabel(s)
      [] item = "deleteNode" -> deleteSelectedNode(s)
      [] item = "connectFromNode" -> connectFromNode(s)
      [] item = "duplicateSelection" -> duplicateSelection(s)
      [] item = "deleteSelection" -> deleteSelection(s)
      [] item = "copySelection" -> hideContextMenu(copySelectionToClipboard(s))
      [] item = "pasteSelection" -> hideContextMenu(pasteFromClipboard(s))
      [] item = "deleteConnection" -> deleteConnectionFromContext(s)
      [] OTHER -> s

MenuItems == {"addConnectedMaterial", "addConnectedActivity", "editLabel",
              "deleteNode", "connectFromNode", "duplicateSelection",
              "deleteSelection", "copySelection", "pasteSelection",
              "deleteConnection"}

---------------------------------------------------------------------------
(* Events.  An action is one gesture of the user: a drop from the palette, *)
(* a click, a drag, a right click, a key or key chord, a button.  The edit *)
(* modal covers the page while it is displayed.                            *)

\* the handlers of a gesture ran from the current state and ended in t
Step(t) == \E r \in {t} : Bounded(r) /\ Apply(r)

Drop(type, pos) == modalHidden /\ Step(dropHandler(Cur, type, pos))

ClickTool(tool) == modalHidden /\ Step(documentClick(setTool(Cur, tool)))

Click(pos) == modalHidden /\ Step(clickGesture(Cur, pos))

Drag(pos, target) ==
    modalHidden /\ pos # target /\ Step(dragGesture(Cur, pos, target))

RightClick(pos, early) ==
    /\ modalHidden
    /\ handleMouseDown(Cur, pos).modalHidden
    /\ Step(rightClickGesture(Cur, pos, early))

KeyDelete == modalHidden /\ Step(deleteSelected(Cur))

KeyEscape == modalHidden /\ Step(keyEscape(Cur))

KeyUndo == modalHidden /\ Step(undo(Cur))

KeyCut == modalHidden /\ Step(cutSelected(Cur))

KeyCopy == modalHidden /\ Step(copySelectionToClipboard(Cur))

KeyPaste == modalHidden /\ Step(pasteFromClipboard(Cur))

UndoButton == modalHidden /\ Step(documentClick(undo(Cur)))

ClearButton == modalHidden /\ Step(documentClick(clear(Cur)))

GenerateButton(words) ==
    /\ modalHidden
    /\ "from" \notin Range(words)
    /\ Step(documentClick(generateFromNL(Cur, words)))

ClickMenuItem(item) ==
    modalHidden /\ itemShown(Cur, item) /\ Step(menuItem(Cur, item))

\* the Save button of the modal, or Enter
SaveEdit(value) == ~modalHidden /\ Step(saveEdit(Cur, value))

\* the Cancel button of the modal, Escape, or a click on the modal's backdrop
CancelEdit == ~modalHidden /\ Step(cancelEdit(Cur))

\* the graph editor: palette, tools, clicks, Delete, undo, clear, generator
Next ==
    \/ \E d \in Drops : Drop(d[1], d[2])
    \/ \E tool \in Tools : ClickTool(tool)
    \/ \E pos \in PointerPositions : Click(pos)
    \/ KeyDelete
    \/ KeyEscape
    \/ KeyUndo
    \/ ClearButton
    \/ \E words \in NLTexts : GenerateButton(words)

Spec == Init /\ [][Next]_vars

\* the clipboard: selection by click, copy, cut, paste, Delete, undo
NextClip ==
    \/ Drop("material", PosA)
    \/ \E pos \in {PosA, PosMid} : Click(pos)
    \/ KeyDelete
    \/ KeyUndo
    \/ KeyCut
    \/ KeyCopy
    \/ KeyPaste

SpecClip == Init /\ [][NextClip]_vars

\* the context menu and the edit modal
NextMenu ==
    \/ Drop("material", PosA)
    \/ \E pos \in {PosA, PosMid}, early \in BOOLEAN : RightClick(pos, early)
    \/ \E item \in MenuItems : ClickMenuItem(item)
    \/ Click(PosLabel)
    \/ Drag(PosA, PosB)
    \/ KeyDelete
    \/ UndoButton
    \/ \E value \in EditTexts : SaveEdit(value)
    \/ CancelEdit

SpecMenu == Init /\ [][NextMenu]_vars

---------------------------------------------------------------------------
(* Calls.  The methods of SupplyChainCanvas called directly, on nodes of   *)
(* the diagram, with any pair of nodes as the arguments of               *)
(* createConnection.                                                       *)

BoundedApi(t) ==
    /\ t.nodeCounter <= MaxApiNodes
    /\ Len(t.history) <= MaxApiHist

StepApi(t) == \E r \in {t} : BoundedApi(r) /\ Apply(r)

ApiAddNode(type) == StepApi(addNode(Cur, type, PosA, <<>>))

ApiCreateConnection(i, j) == StepApi(createConnection(Cur, nodes[i], nodes[j]))

ApiDeleteNode(i) == StepApi(deleteNode(Cur, nodes[i]))

ApiUndo == StepApi(undo(Cur))

NextApi ==
    \/ \E type \in NodeTypes : ApiAddNode(type)
    \/ \E i \in 1..Len(nodes), j \in 1..Len(nodes) : ApiCreateConnection(i, j)
    \/ \E i \in 1..Len(nodes) : ApiDeleteNode(i)
    \/ ApiUndo

SpecApi == Init /\ [][NextApi]_vars

---------------------------------------------------------------------------
(* canConnect as a function of its arguments: the diagram holds three      *)
(* nodes of any kinds, and canConnect is called on any two of them, a node *)
(* with itself included.                                                   *)

threeNodes(t1, t2, t3) ==
    addNode(addNode(addNode(saveInitialState(constructed), t1, PosA, <<>>),
                    t2, PosB, <<>>), t3, PosMid, <<>>)

InitCan == \E t1 \in NodeTypes, t2 \in NodeTypes, t3 \in NodeTypes :
               Load(threeNodes(t1, t2, t3))

CallCanConnect(i, j) ==
    Apply([Cur EXCEPT !.call =
              CallOf("canConnect", nodes[i].id, nodes[j].id,
                     IF canConnect(nodes[i], nodes[j]) THEN "true" ELSE "false")])

NextCan == \E i \in 1..Len(nodes), j \in 1..Len(nodes) : CallCanConnect(i, j)

SpecCan == InitCan /\ [][NextCan]_vars

---------------------------------------------------------------------------
(* Long histories: drops of one palette item and undo, with the history    *)
(* limit of the program.                                                   *)

\* pairs of equal neighbouring snapshots in h
Repeats(h) == Cardinality({i \in 1..(Len(h) - 1) : h[i] = h[i + 1]})

BoundedHist(t) ==
    /\ t.nodeCounter <= MaxCounterHist
    /\ Repeats(t.history) <= MaxRepeats

DropMaterial ==
    \E r \in {dropHandler(Cur, "material", PosA)} : BoundedHist(r) /\ Apply(r)

UndoDrop == \E r \in {undo(Cur)} : Apply(r)

NextHist == DropMaterial \/ UndoDrop

SpecHist == Init /\ [][NextHist]_vars

---------------------------------------------------------------------------
(* The edit modal of a text box, a node and an edge: palette drops, the    *)
(* double clicks, typing, Save, Cancel and undo.                           *)

BoundedEdit(t) ==
    /\ t.nodeCounter <= MaxEditNodes
    /\ Len(t.nodes) <= MaxEditNodes
    /\ Len(t.history) <= MaxEditHist

StepEdit(t) == \E r \in {t} : BoundedEdit(r) /\ Apply(r)

\* drops of a text box and a material, a double click on either, an input
\* event in the modal, Save, Cancel, Ctrl+Z
NextEdit ==
    \/ modalHidden /\ StepEdit(dropHandler(Cur, "textbox", PosA))
    \/ modalHidden /\ StepEdit(dropHandler(Cur, "material", PosB))
    \/ \E pos \in {PosA, PosB} : modalHidden /\ StepEdit(doubleClickGesture(Cur, pos))
    \/ \E value \in EditTexts : ~modalHidden /\ StepEdit(editInputHandlerCall(Cur, value))
    \/ \E value \in EditTexts : ~modalHidden /\ StepEdit(saveEdit(Cur, value))
    \/ ~modalHidden /\ StepEdit(cancelEdit(Cur))
    \/ modalHidden /\ StepEdit(undo(Cur))

SpecEdit == Init /\ [][NextEdit]_vars

---------------------------------------------------------------------------
(* Pointer events one by one: the button pressed on the canvas, the        *)
(* pointer moved, the button released over the canvas or elsewhere in the  *)
(* document, a contextmenu event, the tool buttons and Escape.             *)

\* a palette drop, a tool button, mousedown, mousemove, mouseup on the canvas
\* (the event bubbles to the document), mouseup outside the canvas,
\* contextmenu, Escape
BoundedPointer(t) ==
    /\ t.nodeCounter <= MaxPtrNodes
    /\ Len(t.nodes) <= MaxPtrNodes
    /\ Len(t.history) <= MaxPtrHist
    /\ \A i \in 1..Len(t.nodes) : t.nodes[i].x <= MaxX /\ t.nodes[i].y <= MaxY
    /\ t.strokeClock <= MaxStrokes
    /\ \A i \in 1..Len(t.freehandStrokes) :
            Len(t.freehandStrokes[i].points) <= MaxPoints

StepPointer(t) == \E r \in {t} : modalHidden /\ BoundedPointer(r) /\ Apply(r)

NextPointer ==
    \/ StepPointer(dropHandler(Cur, "material", PosA))
    \/ \E tool \in {"select", "pan", "pen"} : StepPointer(documentClick(setTool(Cur, tool)))
    \/ \E pos \in {PosA, PosMid} : StepPointer(handleMouseDown(Cur, pos))
    \/ StepPointer(handleMouseMove(Cur, PosB))
    \/ StepPointer(documentMouseUp(handleMouseUp(Cur)))
    \/ StepPointer(documentMouseUp(Cur))
    \/ StepPointer(handleRightClick(Cur, PosA))
    \/ StepPointer(keyEscape(Cur))

SpecPointer == Init /\ [][NextPointer]_vars

---------------------------------------------------------------------------
(* Identifiers and box selection: the sample diagram, a palette drop, a    *)
(* box drawn over the canvas, the multi-selection menu, the clipboard,     *)
(* Delete, undo, clear and the generator.                                  *)

BoundedBox(t) ==
    /\ t.nodeCounter <= MaxBoxCounter
    /\ Len(t.nodes) <= MaxBoxCounter
    /\ Len(t.history) <= MaxBoxHist
    /\ \A i \in 1..Len(t.nodes) : t.nodes[i].x <= MaxBoxX /\ t.nodes[i].y <= MaxBoxY

StepBox(t) == \E r \in {t} : BoundedBox(r) /\ Apply(r)

\* a drop from the palette, the Load Example button, a box drawn from BoxFrom
\* to BoxTo with the left button, a right click on the first sample node, the
\* Duplicate item of the menu, Ctrl+X, Ctrl+V, Delete, Ctrl+Z, the Clear
\* button, the Generate button
NextBox ==
    \/ StepBox(dropHandler(Cur, "material", PosA))
    \/ StepBox(documentClick(loadExample(Cur)))
    \/ StepBox(dragGesture(Cur, BoxFrom, BoxTo))
    \/ StepBox(rightClickGesture(Cur, PosSample, TRUE))
    \/ itemShown(Cur, "duplicateSelection") /\ StepBox(menuItem(Cur, "duplicateSelection"))
    \/ StepBox(cutSelected(Cur))
    \/ StepBox(pasteFromClipboard(Cur))
    \/ StepBox(deleteSelected(Cur))
    \/ StepBox(undo(Cur))
    \/ StepBox(documentClick(clear(Cur)))
    \/ StepBox(documentClick(generateFromNL(Cur, <<"supplier", "ship">>)))

SpecBox == Init /\ [][NextBox]_vars

---------------------------------------------------------------------------
(* Copy and paste of a part of a diagram with edges: the Load Example      *)
(* button, a click on the first sample node, a box over the canvas,        *)
(* Ctrl+C, Ctrl+X, Ctrl+V and Ctrl+Z.                                      *)

BoundedPaste(t) ==
    /\ Len(t.nodes) <= MaxPasteNodes
    /\ Len(t.history) <= MaxPasteHist
    /\ \A i \in 1..Len(t.nodes) : t.nodes[i].y <= MaxPasteY

StepPaste(t) == \E r \in {t} : BoundedPaste(r) /\ Apply(r)

NextPaste ==
    \/ StepPaste(documentClick(loadExample(Cur)))
    \/ StepPaste(clickGesture(Cur, PosSample))
    \/ StepPaste(dragGesture(Cur, BoxFrom, BoxTo))
    \/ StepPaste([copySelectionToClipboard(Cur) EXCEPT
                    !.call = CallOf("copySelectionToClipboard", 0, 0, <<>>)])
    \/ StepPaste(cutSelected(Cur))
    \/ StepPaste([pasteFromClipboard(Cur) EXCEPT
                    !.call = CallOf("pasteFromClipboard", 0, 0, <<>>)])
    \/ StepPaste(undo(Cur))

SpecPaste == Init /\ [][NextPaste]_vars

---------------------------------------------------------------------------
(* Edges: the ways an edge is made on a diagram of up to MaxEdgeNodes      *)
(* nodes.  Palette drops of a material or an activity, the connect tool,   *)
(* clicks on the place of the drops and on the place of a node added by    *)
(* the menu, the menu of a node with its add-connected items, Ctrl+C,      *)
(* Ctrl+V, the generator and the Clear button.                             *)

BoundedEdges(t) ==
    /\ t.nodeCounter <= MaxEdgeNodes
    /\ Len(t.nodes) <= MaxEdgeNodes
    /\ Len(t.history) <= MaxEdgeHist
    /\ \A i \in 1..Len(t.nodes) : t.nodes[i].x <= MaxX /\ t.nodes[i].y <= MaxY

StepEdges(t) == \E r \in {t} : BoundedEdges(r) /\ Apply(r)

NextEdges ==
    \/ \E type \in {"material", "activity"} : StepEdges(dropHandler(Cur, type, PosSample))
    \/ StepEdges(documentClick(setTool(Cur, "connect")))
    \/ \E pos \in {PosSample, PosSecond} : StepEdges(clickGesture(Cur, pos))
    \/ StepEdges(rightClickGesture(Cur, PosSample, TRUE))
    \/ \E item \in {"addConnectedMaterial", "addConnectedActivity"} :
            itemShown(Cur, item) /\ StepEdges(menuItem(Cur, item))
    \/ StepEdges(copySelectionToClipboard(Cur))
    \/ StepEdges(pasteFromClipboard(Cur))
    \/ StepEdges(documentClick(generateFromNL(Cur, <<"supplier", "ship">>)))
    \/ StepEdges(documentClick(clear(Cur)))

SpecEdges == Init /\ [][NextEdges]_vars

---------------------------------------------------------------------------
(* Files: loads of a saved diagram or of a text that is no JSON, palette   *)
(* drops, the generator and undo.                                          *)

\* a diagram file: material nodes with the ids of the sequence ids, in a
\* row, each linked to the next
fileOf(ids) ==
    [nodes |-> [k \in 1..Len(ids) |->
                  [id |-> ids[k], type |-> "material", shape |-> "triangle",
                   label |-> "Material", x |-> 100 * k, y |-> 150,
                   width |-> 0, height |-> 0, dragStart |-> <<>>]],
     connections |-> [k \in 1..(Len(ids) - 1) |->
                        [from |-> ids[k], to |-> ids[k + 1], label |-> ""]],
     freehandStrokes |-> <<>>]

\* the ids of the saved diagrams: node_1 .. node_<MaxFileId>, all of them or
\* all but one, alone or after "m1" and a node_ id without a number
FileIdLists ==
    {pre \o SelectSeq([i \in 1..MaxFileId |-> i], LAMBDA i : i # k) :
        k \in 0..MaxFileId, pre \in {<<>>, <<-1, 0>>}}

\* the files: a text that is no JSON, and the saved diagrams
Files == {<<>>} \cup {<<fileOf(ids)>> : ids \in FileIdLists}

BoundedLoad(t) ==
    /\ t.nodeCounter <= MaxFileId + 1
    /\ Len(t.history) <= MaxLoadHist

StepLoad(t) == \E r \in {t} : BoundedLoad(r) /\ Apply(r)

\* a file chosen in the Load dialog, a drop from the palette, the Generate
\* button with a text of the set NLTexts or the description Sentence, Ctrl+Z
NextLoad ==
    \/ \E file \in Files : StepLoad(handleFileLoad(Cur, file))
    \/ StepLoad(dropHandler(Cur, "material", PosA))
    \/ \E words \in NLTexts \cup {Sentence} :
            StepLoad(documentClick(generateFromNL(Cur, words)))
    \/ StepLoad(undo(Cur))

SpecLoad == Init /\ [][NextLoad]_vars

---------------------------------------------------------------------------
(* The basic canvas, unnamed/part_000: it has one selected node, no        *)
(* history, no strokes and no clipboard; those variables stay as they are  *)
(* after construction.  Nodes are added, deleted, cleared and loaded from  *)
(* a file.                                                                 *)

\* addNode(type, x, y) of the basic canvas; its nodes have no width, height
\* or dragStart, which are 0 and <<>> here
basic_addNode(s, type, pos) ==
    LET n == s.nodeCounter + 1
        node == [id |-> n, type |-> type,
                 shape |-> IF type = "material" THEN "triangle" ELSE "circle",
                 label |-> defaultLabels(type, s.nodeCounter),
                 x |-> pos[1], y |-> pos[2], width |-> 0, height |-> 0,
                 dragStart |-> <<>>]
    IN  [s EXCEPT !.nodeCounter = n,
                  !.nodes = Append(@, node),
                  !.selectedNodes = <<NodeRef(n)>>,
                  !.call = CallOf("addNode", 0, 0, n)]

\* deleteNode(node) of the basic canvas
basic_deleteNode(s, node) ==
    [s EXCEPT !.nodes = SelectSeq(@, LAMBDA n : n.id # node.id),
              !.connections = SelectSeq(@, LAMBDA c : c.from # node.id /\ c.to # node.id),
              !.selectedNodes = <<>>,
              !.call = CallOf("deleteNode", 0, 0, node.id)]

\* clear() of the basic canvas
basic_clear(s) ==
    [s EXCEPT !.nodes = <<>>, !.connections = <<>>, !.selectedNodes = <<>>,
              !.connectingFrom = <<>>, !.contextMenuNode = <<>>,
              !.nodeCounter = 0, !.menu = "hidden", !.modalHidden = TRUE,
              !.call = CallOf("clear", 0, 0, <<>>)]

\* handleFileLoad(e) of the basic canvas, with reader.onload (load() from
\* the browser storage has the same body): file is <<>> for a text on which
\* JSON.parse throws
basic_handleFileLoad(s, file) ==
    IF file = <<>>
    THEN [s EXCEPT !.call = CallOf("showStatus", 0, 0, "error")]
    ELSE [s EXCEPT !.nodes = file[1].nodes,
                   !.connections = file[1].connections,
                   !.nodeCounter = Len(file[1].nodes),
                   !.selectedNodes = <<>>,
                   !.connectingFrom = <<>>,
                   !.call = CallOf("showStatus", 0, 0, "success")]

StepBasic(t) ==
    \E r \in {t} : r.nodeCounter <= MaxFileId + 1 /\ Len(r.nodes) <= MaxFileId + 1
                     /\ Apply(r)

NextBasic ==
    \/ \E file \in Files : StepBasic(basic_handleFileLoad(Cur, file))
    \/ \E type \in {"material", "activity"} : StepBasic(basic_addNode(Cur, type, PosA))
    \/ \E i \in 1..Len(nodes) : StepBasic(basic_deleteNode(Cur, nodes[i]))
    \/ StepBasic(basic_clear(Cur))

SpecBasic == Init /\ [][NextBasic]_vars

---------------------------------------------------------------------------
(* The generator: the Generate button on an empty canvas, for every text   *)
(* of up to MaxWords words of GenWords, and undo.                          *)

\* two quantity words, the digit 0, a material keyword, an activity keyword
GenWords == {"two", "three", "0", "supplier", "ship"}

RECURSIVE TextsOf(_)
\* the texts of n words
TextsOf(n) ==
    IF n = 0 THEN {<<>>}
    ELSE {Append(w, x) : w \in TextsOf(n - 1), x \in GenWords}

GenTexts == UNION {TextsOf(n) : n \in 1..MaxWords}

BoundedGen(t) == Len(t.history) <= MaxGenHist

\* the Generate button; lastCall keeps the text
Generate(words) ==
    /\ nodes = <<>>
    /\ \E r \in {documentClick(generateFromNL(Cur, words))} :
            /\ BoundedGen(r)
            /\ Apply([r EXCEPT !.call = CallOf("generateFromNL", 0, 0, words)])

GenUndo == \E r \in {undo(Cur)} : Apply([r EXCEPT !.call = CallOf("undo", 0, 0, <<>>)])

NextGen == (\E words \in GenTexts : Generate(words)) \/ GenUndo

SpecGen == Init /\ [][NextGen]_vars

---------------------------------------------------------------------------
(* The tokenizer: a text of up to MaxTokWords words of TokWords is in the  *)
(* description box of the new editor; the Generate button, and undo.       *)

\* a quantity word, the words of a two-word and of a four-word keyword, one
\* of them a quantity word and two of them keywords themselves, and a word
\* that is nothing
TokWords == {"two", "raw", "material", "consumed", "in", "a", "bom", "x"}

RECURSIVE TokTextsOf(_)
\* the texts of n words
TokTextsOf(n) ==
    IF n = 0 THEN {<<>>}
    ELSE {Append(w, x) : w \in TokTextsOf(n - 1), x \in TokWords}

TokTexts == UNION {TokTextsOf(n) : n \in 1..MaxTokWords}

\* the new editor with a text in #nlInput; lastCall keeps the text
InitTok ==
    \E words \in TokTexts :
        Load([saveInitialState(constructed) EXCEPT
                !.call = CallOf("nlInput", 0, 0, words)])

\* the Generate button on the text of #nlInput, which it empties on success
TokGenerate ==
    /\ lastCall.op = "nlInput"
    /\ Apply([documentClick(generateFromNL(Cur, lastCall.ret)) EXCEPT
                !.call = CallOf("generateFromNL", 0, 0, lastCall.ret)])

NextTok == TokGenerate \/ GenUndo

SpecTok == InitTok /\ [][NextTok]_vars

---------------------------------------------------------------------------
(* Redraws: events whose handlers call queueRender, and animation frames.  *)

\* queueRender() scheduling a callback at every call
queueRender_NoGuard(q) ==
    [q EXCEPT !.isRendering = TRUE, !.pending = @ + 1, !.calls = @ + 1]

\* queueRender() raising the flag without requesting a frame
queueRender_NoRequest(q) ==
    [q EXCEPT !.isRendering = TRUE, !.calls = @ + 1]

\* queueRender(), on the record q of isRendering and the frame bookkeeping
queueRender(q) ==
    IF ~q.isRendering
    THEN [q EXCEPT !.isRendering = TRUE, !.pending = @ + 1, !.calls = @ + 1]
    ELSE [q EXCEPT !.calls = @ + 1]

RECURSIVE queueRenders(_, _)
\* n calls of queueRender in a row
queueRenders(q, n) == IF n = 0 THEN q ELSE queueRenders(queueRender(q), n - 1)

\* the handlers of an event ended in the editor state t after n calls of
\* queueRender
StepRender(t, n) ==
    \E r \in {t}, q \in {queueRenders([isRendering |-> isRendering,
                                        pending |-> frames.pending,
                                        calls |-> frames.calls], n)} :
        /\ Bounded(r)
        /\ q.calls <= MaxQueueCalls
        /\ ApplyEditor(r)
        /\ isRendering' = q.isRendering
        /\ frames' = [frames EXCEPT !.pending = q.pending, !.calls = q.calls]
        /\ UNCHANGED mem

\* the drop listener: addNode calls queueRender once
RenderDrop == StepRender(dropHandler(Cur, "material", PosA), 1)

\* Ctrl+Z: undo calls queueRender once when it restores a state
RenderUndo ==
    \E r \in {undo(Cur)} : StepRender(r, IF r.call.ret = "state" THEN 1 ELSE 0)

\* the Generate button on a text the parser understands: one call in every
\* addNode and one at the end of generateFromNL
RenderGenerate ==
    \E r \in {generateFromNL(Cur, <<"supplier", "ship">>)} :
        StepRender(r, Len(r.nodes) + 1)

\* an animation frame: the pending callbacks run, each one render() and
\* isRendering = false
AnimationFrame ==
    /\ frames.pending > 0
    /\ isRendering' = FALSE
    /\ frames' = [pending |-> 0, calls |-> 0, lastCalls |-> frames.calls,
                  lastRenders |-> frames.pending]
    /\ UNCHANGED << nodes, connections, nodeCounter, freehandStrokes, history,
                    currentIndex, clipboard, internalClipboard, selectedNodes,
                    selectedStrokes, selectedConnection, connectingFrom,
                    contextMenuNode, contextMenuConnection, editingNode,
                    editingConnection, currentTool, isPanning, isDraggingElement,
                    isResizing, isSelecting, selectionRect, dragOffset,
                    currentStroke, isCtrlPressed, menu, modalHidden,
                    editInputHandler, strokeClock,
                    lastCall, mem >>

NextRender == RenderDrop \/ RenderUndo \/ RenderGenerate \/ AnimationFrame

SpecRender == Init /\ [][NextRender]_vars

\* the browser runs a requested animation-frame callback: a pending frame
\* is not postponed forever
SpecRenderFair == Init /\ [][NextRender]_vars /\ WF_vars(AnimationFrame)

---------------------------------------------------------------------------
(* Snapshots by reference: drops, drags, label edits, Delete and undo on   *)
(* the memory of node objects and arrays.                                  *)

\* the places a node is dropped at or dragged to
MemPlaces == {100, 120}

\* the handlers of the event op ran from the current memory and ended in m;
\* trail holds the last two events
StepMem(m, op) ==
    /\ Len(m.arrs[m.nodes]) <= MaxMemNodes
    /\ m.nodeCounter <= MaxMemNodes
    /\ Len(m.history) <= MaxMemHist
    /\ Len(m.objs) <= MaxMemObjs
    /\ Len(m.arrs) <= MaxMemArrs
    /\ mem' = [m EXCEPT !.trail = <<mem.trail[2], op>>]
    /\ UNCHANGED << nodes, connections, nodeCounter, freehandStrokes, history,
                    currentIndex, clipboard, internalClipboard, selectedNodes,
                    selectedStrokes, selectedConnection, connectingFrom,
                    contextMenuNode, contextMenuConnection, editingNode,
                    editingConnection, currentTool, isPanning, isDraggingElement,
                    isResizing, isSelecting, selectionRect, dragOffset,
                    currentStroke, isCtrlPressed, menu, modalHidden,
                    editInputHandler, strokeClock,
                    lastCall, isRendering, frames >>

NextMem ==
    \/ \E x \in MemPlaces : StepMem(memDrop(mem, x), "drop")
    \/ \E i \in 1..Len(mem.arrs[mem.nodes]), x \in MemPlaces :
            mem.objs[mem.arrs[mem.nodes][i]].x # x /\ StepMem(memMove(mem, i, x), "move")
    \/ \E i \in 1..Len(mem.arrs[mem.nodes]) : StepMem(memEdit(mem, i, "L"), "edit")
    \/ \E i \in 1..Len(mem.arrs[mem.nodes]) : StepMem(memDelete(mem, i), "delete")
    \/ mem.currentIndex > 0 /\ StepMem(memUndo(mem), "undo")

SpecMem == Init /\ [][NextMem]_vars

---------------------------------------------------------------------------
(* Properties *)

\* what the history is about, with the history itself
Saved(s) ==
    [nodes |-> s.nodes, connections |-> s.connections,
     nodeCounter |-> s.nodeCounter, freehandStrokes |-> s.freehandStrokes,
     history |-> s.history, currentIndex |-> s.currentIndex]

nothingSelected ==
    selectedNodes = <<>> /\ selectedStrokes = <<>> /\ selectedConnection = <<>>

\* the states one mutation of the current state ends in: a drop, Delete or cut
\* of a selection, a paste, an accepted connection
Mutated ==
    {dropHandler(Cur, d[1], d[2]) : d \in Drops}
        \cup {t \in {deleteSelected(Cur), cutSelected(Cur), pasteFromClipboard(Cur)} :
                StateOf(t) # StateOf(Cur)}
        \cup {t \in {createConnection(Cur, nodes[i], nodes[j]) :
                        i \in 1..Len(nodes), j \in 1..Len(nodes)} :
                t.call.ret = "true"}

\* C1: undo right after a single mutation of the current state (a dropped
\* node, a deletion, a cut, a paste, a new connection) restores the nodes,
\* connections, nodeCounter and strokes the state had before the mutation
C1_UndoRoundTrip == \A t \in Mutated : StateOf(undo(t)) = StateOf(Cur)

\* C2: generateFromNL on a non-empty text from which the parser extracts
\* nothing leaves nodes, connections, nodeCounter and strokes as they were
\* before the call, in every reachable state
C2_FailedGenerateRestores ==
    /\ parse(<<"hello", "world">>) = <<>>
    /\ StateOf(generateFromNL(Cur, <<"hello", "world">>)) = StateOf(Cur)

\* C3: in every reachable state the from and to of every edge are ids of
\* nodes of the diagram
C3_NoDanglingEdge ==
    \A i \in 1..Len(connections) :
        /\ connections[i].from \in NodeIds(nodes)
        /\ connections[i].to \in NodeIds(nodes)

\* C4: whatever createConnection, addNode, deleteNode and undo calls were
\* made, no two edges join the same unordered pair of node ids
C4_OneEdgePerPair ==
    \A i \in 1..Len(connections), j \in 1..Len(connections) :
        i # j => {connections[i].from, connections[i].to}
                    # {connections[j].from, connections[j].to}

\* a createConnection call on a pair that an edge already joins in the given
\* direction returned false, and the edge is still the only one of the pair
C4_DuplicateRefused ==
    /\ lastCall.op = "createConnection"
    /\ lastCall.ret = "false"
    /\ \E i \in 1..Len(connections) :
          connections[i].from = lastCall.from /\ connections[i].to = lastCall.to

\* C5 as stated: canConnect is false for two nodes of the same kind, text
\* boxes included, true for distinct nodes of differing kinds, and symmetric
C5_SameKindNeverConnects ==
    \A i \in 1..Len(nodes), j \in 1..Len(nodes) :
        /\ nodes[i].type = nodes[j].type => ~canConnect(nodes[i], nodes[j])
        /\ nodes[i].type # nodes[j].type => canConnect(nodes[i], nodes[j])
        /\ canConnect(nodes[i], nodes[j]) = canConnect(nodes[j], nodes[i])

\* C5: canConnect(a, a) is false; for distinct nodes it is true when one of
\* them is a text box, and otherwise true exactly when the kinds differ; it
\* is symmetric
C5_CanConnect ==
    \A i \in 1..Len(nodes), j \in 1..Len(nodes) :
        LET a == nodes[i]
            b == nodes[j]
        IN  /\ a.id = b.id => ~canConnect(a, b)
            /\ a.id # b.id /\ "textbox" \in {a.type, b.type} => canConnect(a, b)
            /\ a.id # b.id /\ "textbox" \notin {a.type, b.type}
                  => (canConnect(a, b) <=> a.type # b.type)
            /\ canConnect(a, b) = canConnect(b, a)

\* canConnect was called on two distinct text boxes and returned true
C5_TextBoxesConnect ==
    /\ lastCall.op = "canConnect"
    /\ lastCall.from # lastCall.to
    /\ NodeById(nodes, lastCall.from).type = "textbox"
    /\ NodeById(nodes, lastCall.to).type = "textbox"
    /\ lastCall.ret = "true"

\* C6: createConnection on a material pair, an activity pair, a node with
\* itself or a pair an edge joins in either direction returns false and
\* leaves nodes, connections, nodeCounter, history and pointer as they were;
\* a call that returns true has pushed one snapshot, that of the state before
\* the call, and appended one edge from the first node to the second
C6_CreateConnection ==
    \A i \in 1..Len(nodes), j \in 1..Len(nodes) :
        LET a == nodes[i]
            b == nodes[j]
            r == createConnection(Cur, a, b)
            rejected == \/ a.id = b.id
                        \/ a.type = b.type /\ a.type \in {"material", "activity"}
                        \/ existingConnection(connections, a, b)
        IN  /\ r.call.op = "createConnection"
            /\ r.call.ret \in {"true", "false"}
            /\ rejected => r.call.ret = "false" /\ Saved(r) = Saved(Cur)
            /\ r.call.ret = "true" =>
                  /\ r.nodes = nodes
                  /\ r.nodeCounter = nodeCounter
                  /\ r.connections =
                        Append(connections, [from |-> a.id, to |-> b.id, label |-> ""])
                  /\ r.history = Append(SubSeq(history, 1, currentIndex + 1), StateOf(Cur))
                  /\ r.currentIndex = currentIndex + 1

\* createConnection was called on a pair that an edge joins in the other
\* direction, and returned false
C6_ReverseRefused ==
    /\ lastCall.op = "createConnection"
    /\ lastCall.ret = "false"
    /\ lastCall.from # lastCall.to
    /\ \E i \in 1..Len(connections) :
          connections[i].from = lastCall.to /\ connections[i].to = lastCall.from

\* C7: the history holds between 1 and 25 snapshots and the pointer is an
\* index into it; right after saveState the pointer is on the last snapshot
C7_HistoryBound ==
    /\ Len(history) \in 1..maxHistorySize
    /\ 0 <= currentIndex /\ currentIndex < Len(history)
    /\ LET r == saveState(Cur)
       IN  /\ Len(r.history) \in 1..maxHistorySize
           /\ r.currentIndex = Len(r.history) - 1
           /\ r.history[Len(r.history)] = StateOf(Cur)

\* the history is full after a saveState that shifted the oldest snapshot out
C7_FullAfterEviction ==
    /\ Len(history) = maxHistorySize
    /\ currentIndex = maxHistorySize - 1
    /\ history[1].nodeCounter > 0
    /\ Len(nodes) > maxHistorySize

RECURSIVE undoChain(_)
\* the states repeated undo returns, up to the first null
undoChain(s) ==
    LET r == undo(s)
    IN  IF r.call.ret = "null" THEN <<>> ELSE <<StateOf(r)>> \o undoChain(r)

\* the current state is the one more than 25 drops in a row end in: each
\* snapshot of the history is the state one drop before the next
afterManyMutations ==
    /\ Len(nodes) > maxHistorySize
    /\ nodeCounter = Len(nodes)
    /\ currentIndex = Len(history) - 1
    /\ \A i \in 1..Len(history) :
          history[i].nodeCounter = nodeCounter - 1 - (Len(history) - i)

\* C8: after more than 25 mutations in a row repeated undo returns 25
\* distinct states, the most recent first, and then null
C8_UndoReturnsLast25 ==
    afterManyMutations =>
        LET q == undoChain(Cur)
        IN  /\ Len(q) = maxHistorySize
            /\ \A i \in 1..Len(q), j \in 1..Len(q) : i # j => q[i] # q[j]
            /\ \A i \in 1..Len(q) : q[i].nodeCounter = nodeCounter - i

C10_NoOps ==
    /\ currentIndex = 0 =>
          undo(Cur).call.ret = "null" /\ Saved(undo(Cur)) = Saved(Cur)
    /\ nothingSelected =>
          /\ Saved(deleteSelected(Cur)) = Saved(Cur)
          /\ Saved(cutSelected(Cur)) = Saved(Cur)
    /\ clipboard = <<>> /\ internalClipboard = <<>> =>
          Saved(pasteFromClipboard(Cur)) = Saved(Cur)

\* undo returned null at pointer 0 of a history of several snapshots, with
\* nothing selected and nothing to paste
C10_UndoAtOrigin ==
    /\ lastCall.op = "undo"
    /\ lastCall.ret = "null"
    /\ currentIndex = 0
    /\ Len(history) > 1
    /\ nothingSelected
    /\ clipboard = <<>> /\ internalClipboard = <<>>

RECURSIVE undoReturns(_)
\* the snapshots StateManager.undo() returns when called until it returns null
undoReturns(sm) ==
    LET r == SM_undo(sm)
    IN  IF r.ret = <<>> THEN <<>>
        ELSE <<r.ret[1]>> \o
             undoReturns([history |-> sm.history, currentIndex |-> r.currentIndex])

\* C11: saveState discards the snapshots beyond the pointer before it
\* appends: the new snapshot is the last entry, the entries before it are the
\* snapshots at indices 0..pointer from before the call, less the oldest one
\* when the limit is passed, and the undos that follow return entries of
\* that kept part only
C11_SaveDiscardsFuture ==
    LET before == SubSeq(history, 1, currentIndex + 1)
        kept == IF Len(before) = maxHistorySize THEN Tail(before) ELSE before
        r == saveState(Cur)
        q == undoReturns([history |-> r.history, currentIndex |-> r.currentIndex])
    IN  /\ r.history = Append(kept, StateOf(Cur))
        /\ Len(q) = Len(kept)
        /\ \A k \in 1..Len(q) : q[k] = kept[Len(kept) + 1 - k]

\* a drop that followed an undo has cut the history at the pointer: its
\* snapshot, equal to the one the undo returned, is the last entry
C11_SavedAfterUndo ==
    /\ Len(history) > 2
    /\ currentIndex = Len(history) - 1
    /\ history[Len(history)] = history[Len(history) - 1]
    /\ Len(nodes) = history[Len(history)].nodeCounter + 1

\* C12: in every state the editor's operations reach (palette drop,
\* duplicate, paste, cut, Delete, clear, undo, generation, load example) the
\* ids of the nodes of the diagram are pairwise distinct
C12_UniqueIds ==
    \A i \in 1..Len(nodes), j \in 1..Len(nodes) : nodes[i].id = nodes[j].id => i = j

\* the sample diagram with three of its nodes duplicated
C12_DuplicatedSample ==
    /\ Len(nodes) = 8
    /\ nodeCounter = 8
    /\ \E i \in 1..Len(nodes) : nodes[i].id < 0
\* C13: nodeCounter only increases over the lifetime of the editor, so that
\* an id once assigned is never assigned to a later node, also after its
\* first holder was deleted or its creation undone
C13_CounterOnlyIncreases == [][nodeCounter' >= nodeCounter]_vars
\* the ids of the nodes of the diagram
idsOf(ns) == {ns[i].id : i \in 1..Len(ns)}

\* C14: after a file is loaded nodeCounter is the largest number N of an id
\* node_<N> of the loaded nodes, the id the next addNode assigns is the id of
\* no loaded node, and it is node_6 when the ids of the file are among
\* node_1 .. node_5 with node_5 one of them
C14_CounterAfterLoad ==
    (lastCall = CallOf("showStatus", 0, 0, "success")) =>
        LET ids == idsOf(nodes)
            added == LastNode(addNode(Cur, "material", PosA, <<>>))
        IN  /\ \A id \in ids : id > 0 => id <= nodeCounter
            /\ nodeCounter = 0 \/ nodeCounter \in ids
            /\ added.id \notin ids
            /\ (ids \subseteq 1..5 /\ 5 \in ids) => added.id = 6

\* the file of node_1 .. node_5 without node_3 is loaded
C14_LoadedWithGap ==
    /\ lastCall = CallOf("showStatus", 0, 0, "success")
    /\ idsOf(nodes) = {1, 2, 4, 5}
\* C15: deleteNode(n) leaves a diagram without n and without an edge from or
\* to n, in which every other node and every edge that does not touch n is
\* as it was and where it was; for a node that is not in the diagram it
\* changes nothing
C15_DeleteNodeFrame ==
    LET absent == LastNode(addNode(Cur, "material", PosA, <<>>))
    IN  \A n \in Range(nodes) \cup {absent} :
            LET r == deleteNode(Cur, n)
                others == SelectSeq(nodes, LAMBDA m : m.id # n.id)
                apart == SelectSeq(connections,
                                   LAMBDA c : c.from # n.id /\ c.to # n.id)
            IN  /\ n.id \notin idsOf(r.nodes)
                /\ \A k \in 1..Len(r.connections) :
                        r.connections[k].from # n.id /\ r.connections[k].to # n.id
                /\ r.nodes = others
                /\ r.connections = apart
                /\ StateOf(r) = [StateOf(Cur) EXCEPT !.nodes = others,
                                                     !.connections = apart]
                /\ r.history = history /\ r.currentIndex = currentIndex
                /\ n = absent => r.nodes = nodes /\ r.connections = connections

\* the first three nodes of the sample diagram were deleted: the edge of the
\* last two nodes is the one that is left
C15_SampleTailLeft ==
    /\ idsOf(nodes) = {-4, -5}
    /\ connections = <<[from |-> -4, to |-> -5, label |-> ""]>>
\* C16: the load of a file that is no JSON shows an error status and leaves
\* nodes, connections, freehand strokes and nodeCounter as they were
C16_FailedLoadKeepsDiagram ==
    LET r == handleFileLoad(Cur, <<>>)
    IN  /\ r.call = CallOf("showStatus", 0, 0, "error")
        /\ StateOf(r) = StateOf(Cur)

\* a file that is no JSON was loaded over a diagram with nodes
C16_FailedLoadOverDiagram ==
    /\ lastCall = CallOf("showStatus", 0, 0, "error")
    /\ Len(nodes) > 1
    /\ connections # <<>>

\* C17: a file load whose JSON parsing fails, and a generation whose text is
\* not understood, leave the history stack and the history pointer as they
\* were before the call
C17_RejectedKeepsHistory ==
    /\ LET r == handleFileLoad(Cur, <<>>)
       IN  r.history = history /\ r.currentIndex = currentIndex
    /\ \A words \in NLTexts :
            (words # <<>> /\ parse(words) = <<>>) =>
                LET r == generateFromNL(Cur, words)
                IN  r.history = history /\ r.currentIndex = currentIndex
\* C18: a box drawn in Select mode over three node centres selects these
\* three nodes and nothing else; Delete then removes the three and the edges
\* from or to them and pushes one snapshot; one undo after it brings back
\* the three nodes and the edges
C18_BoxSelectDeleteUndo ==
    LET inside == {i \in 1..Len(nodes) :
                      /\ nodes[i].x > BoxFrom[1] /\ nodes[i].x < BoxTo[1]
                      /\ nodes[i].y > BoxFrom[2] /\ nodes[i].y < BoxTo[2]}
        boxed == {nodes[i].id : i \in inside}
        d == dragGesture(Cur, BoxFrom, BoxTo)
        k == deleteSelected(d)
        u == undo(k)
    IN  ( /\ currentTool = "select"
          /\ handleMouseDown(Cur, BoxFrom).isSelecting
          /\ Cardinality(inside) = 3 ) =>
            /\ Len(d.selectedNodes) = 3
            /\ \A i \in 1..3 : d.selectedNodes[i].live
            /\ {d.selectedNodes[i].id : i \in 1..3} = boxed
            /\ d.selectedStrokes = <<>> /\ d.selectedConnection = <<>>
            /\ d.nodes = nodes /\ d.connections = connections
            /\ k.nodes = SelectSeq(nodes, LAMBDA n : n.id \notin boxed)
            /\ k.connections =
                  SelectSeq(connections,
                            LAMBDA c : c.from \notin boxed /\ c.to \notin boxed)
            /\ k.history = Append(d.history, StateOf(d))
            /\ k.currentIndex = d.currentIndex + 1
            /\ u.nodes = nodes
            /\ u.connections = connections

\* the sample diagram after a box over three of its nodes, Delete and undo
C18_SampleBack ==
    /\ lastCall.op = "undo"
    /\ idsOf(nodes) = {-1, -2, -3, -4, -5}
    /\ Len(connections) = 4
    /\ Len(history) = 4
    /\ idsOf(history[4].nodes) = {-1, -2, -3, -4, -5}
    /\ history[3] = history[4]
\* C19: generateFromNL on the description Sentence builds 6 nodes and 5
\* edges: two materials, each linked to one activity, linked to one material,
\* linked to one activity, linked to one material
C19_SentenceYieldsChain ==
    LET r == generateFromNL(Cur, Sentence)
        type(k) == r.nodes[k].type
        edge(a, b) == \E c \in Range(r.connections) :
                         c.from = r.nodes[a].id /\ c.to = r.nodes[b].id
    IN  /\ Len(r.nodes) = 6
        /\ Len(r.connections) = 5
        /\ <<type(1), type(2), type(3), type(4), type(5), type(6)>> =
              <<"material", "material", "activity", "material", "activity", "material">>
        /\ edge(1, 3) /\ edge(2, 3) /\ edge(3, 4) /\ edge(4, 5) /\ edge(5, 6)
\* the history after one snapshot of the diagram of s is pushed on that of Cur
oneSnapshot(s) ==
    [history |-> Append(SubSeq(history, 1, currentIndex + 1), StateOf(s)),
     currentIndex |-> currentIndex + 1]

\* C20: a drag in Select mode, the button pressed on a node, the pointer
\* moved any number of times, the button released, pushes no snapshot while
\* the pointer moves and one snapshot when the button is released, over
\* the canvas or after the pointer left it
C20_DragWritesOneSnapshot ==
    \A pos \in PointerPositions, t1 \in PointerPositions, t2 \in PointerPositions :
        LET d == handleMouseDown(Cur, pos)
            m1 == handleMouseMove(d, t1)
            m2 == handleMouseMove(m1, t2)
            h(s) == [history |-> s.history, currentIndex |-> s.currentIndex]
        IN  (modalHidden /\ currentTool = "select" /\ d.isDraggingElement) =>
                /\ h(d) = h(Cur) /\ h(m1) = h(Cur) /\ h(m2) = h(Cur)
                /\ \A m \in {d, m1, m2} :
                        /\ h(documentMouseUp(handleMouseUp(m))) = oneSnapshot(m)
                        /\ h(documentMouseUp(m)) = oneSnapshot(m)
\* no gesture is in progress in s
idle(s) ==
    /\ ~s.isDraggingElement /\ ~s.isResizing /\ ~s.isSelecting /\ ~s.isPanning
    /\ s.currentStroke = <<>>
    /\ s.selectionRect = <<>>

\* C21: from a gesture in progress (the button pressed, the pointer moved) a
\* release over the canvas, a release elsewhere in the document and Escape
\* each end with no gesture flag set, no current stroke and no selection
\* rectangle, and with nodes and connections as the gesture left them;
\* Escape also leaves no pending connect source and the Select tool
C21_GestureEndsIdle ==
    \A pos \in PointerPositions, target \in PointerPositions :
        LET d == handleMouseDown(Cur, pos)
            m == handleMouseMove(d, target)
            over == documentMouseUp(handleMouseUp(m))
            elsewhere == documentMouseUp(m)
            esc == keyEscape(m)
        IN  (modalHidden /\ d.modalHidden) =>
                /\ idle(over) /\ idle(elsewhere) /\ idle(esc)
                /\ \A r \in {over, elsewhere, esc} :
                        r.nodes = m.nodes /\ r.connections = m.connections
                /\ esc.connectingFrom = <<>> /\ esc.currentTool = "select"
\* C22: in Connect mode with a pending source, a click on the pending source
\* itself leaves no pending source and creates no edge
C22_SameNodeCancels ==
    \A pos \in PointerPositions :
        LET clickedNode == getNodeAt(nodes, pos)
            r == clickGesture(Cur, pos)
        IN  ( /\ modalHidden /\ currentTool = "connect" /\ ~isCtrlPressed
              /\ connectingFrom # <<>> /\ clickedNode # <<>>
              /\ connectingFrom[1].live
              /\ connectingFrom[1].id = clickedNode[1].id ) =>
                /\ r.connectingFrom = <<>>
                /\ r.connections = connections
\* nodes, connections, strokes and the selected nodes and strokes of s
content(s) ==
    [nodes |-> s.nodes, connections |-> s.connections,
     freehandStrokes |-> s.freehandStrokes, selectedNodes |-> s.selectedNodes,
     selectedStrokes |-> s.selectedStrokes]

\* C23: with the Pan tool current, or with Control held while any of the
\* tools Select, Connect, Delete, Pen, Eraser is current, a drag leaves
\* nodes, connections, strokes and selection as they were
C23_PanOverridesTool ==
    \A tool \in {"select", "connect", "delete", "pen", "eraser"},
       pos \in PointerPositions, target \in PointerPositions :
        LET held == keyDownControl(setTool(Cur, tool))
            pan == setTool(Cur, "pan")
        IN  modalHidden =>
                /\ content(dragGesture(held, pos, target)) = content(held)
                /\ content(dragGesture(pan, pos, target)) = content(pan)
\* C24: a step that changes the current tool ends with no selected node, no
\* selected stroke and no selected edge
C24_ToolChangeClearsSelection ==
    [][currentTool' # currentTool =>
          /\ selectedNodes' = <<>>
          /\ selectedStrokes' = <<>>
          /\ selectedConnection' = <<>>]_vars
\* C25: after an undo that restored a state there is no selected node, no
\* selected stroke, no selected edge and no pending connect source
C25_UndoClearsSelection ==
    (lastCall = CallOf("undo", 0, 0, "state")) =>
        /\ selectedNodes = <<>>
        /\ selectedStrokes = <<>>
        /\ selectedConnection = <<>>
        /\ connectingFrom = <<>>
\* C26: at most one redraw callback is pending at any time, one is pending
\* whenever queueRender was called since the last frame, and a frame that
\* follows any number of queueRender calls renders once
C26_OneRenderPerFrame ==
    /\ frames.pending <= 1
    /\ frames.calls > 0 => frames.pending = 1 /\ isRendering
    /\ frames.lastCalls > 0 => frames.lastRenders = 1

\* a frame rendered after four calls of queueRender
C26_FrameAfterFourCalls ==
    /\ frames.lastCalls = 4
    /\ frames.lastRenders = 1
    /\ frames.pending = 0
RECURSIVE emitted(_, _)
\* the tokens that open a column: those whose kind is not the kind of the
\* token before them that opened one
emitted(tokens, last) ==
    IF tokens = <<>> THEN <<>>
    ELSE IF Head(tokens).type = last THEN emitted(Tail(tokens), last)
    ELSE <<Head(tokens)>> \o emitted(Tail(tokens), Head(tokens).type)

\* the column of the node n: columns are 200 apart, the first at x = 150
columnOf(n) == ((n.x - 150) \div 200) + 1

\* the nodes of column c, in the order of creation
columnNodes(c) == SelectSeq(nodes, LAMBDA n : columnOf(n) = c)

\* a text was generated and understood
generated == lastCall.op = "generateFromNL" /\ parse(lastCall.ret) # <<>>

\* C27: the diagram buildDiagramFromTokens builds has one column for every
\* token whose kind differs from the kind of the column before it and
\* nothing for the other tokens, so no two neighbouring columns are of one
\* kind, and every edge goes from a node of a column to a node of the next
C27_ColumnsAlternate ==
    generated =>
        LET cols == emitted(parse(lastCall.ret), "")
        IN  /\ \A i \in 1..Len(nodes) :
                    /\ columnOf(nodes[i]) \in 1..Len(cols)
                    /\ nodes[i].type = cols[columnOf(nodes[i])].type
            /\ \A c \in 1..Len(cols) : Len(columnNodes(c)) = Max2(cols[c].quantity, 0)
            /\ \A i \in 1..Len(nodes), j \in 1..Len(nodes) :
                    columnOf(nodes[j]) = columnOf(nodes[i]) + 1 =>
                        nodes[i].type # nodes[j].type
            /\ \A k \in 1..Len(connections) :
                    \E i \in 1..Len(nodes), j \in 1..Len(nodes) :
                        /\ connections[k].from = nodes[i].id
                        /\ connections[k].to = nodes[j].id
                        /\ columnOf(nodes[j]) = columnOf(nodes[i]) + 1

\* a text with two material keywords in a row was generated: one column
\* came of the two
C27_TokenSkipped ==
    /\ generated
    /\ Len(parse(lastCall.ret)) = 3
    /\ Len(emitted(parse(lastCall.ret), "")) = 2
    /\ Len(nodes) = 2
    /\ Len(connections) = 1

\* C28: a column of a token of quantity q > 1 has q nodes of the token's
\* kind labelled label 1 .. label q, a column of a token of quantity 1 one
\* node with the bare label, and the edges between a column and the next are
\* one edge from every node of the first to every node of the second
C28_FanOut ==
    generated =>
        LET cols == emitted(parse(lastCall.ret), "")
            edges == {<<connections[k].from, connections[k].to>> :
                        k \in 1..Len(connections)}
            ids(c) == {columnNodes(c)[i].id : i \in 1..Len(columnNodes(c))}
        IN  /\ \A c \in 1..Len(cols) :
                    LET q == cols[c].quantity
                        col == columnNodes(c)
                    IN  /\ Len(col) = Max2(q, 0)
                        /\ \A i \in 1..Len(col) :
                                /\ col[i].type = cols[c].type
                                /\ col[i].label =
                                      IF q > 1 THEN cols[c].label \o " " \o ToString(i)
                                      ELSE cols[c].label
            /\ edges = UNION {ids(c) \X ids(c + 1) : c \in 1..(Len(cols) - 1)}
            /\ Len(connections) = Cardinality(edges)

\* three materials fanned in to one activity: three edges
C28_ThreeByOne ==
    /\ generated
    /\ lastCall.ret = <<"three", "supplier", "ship">>
    /\ Len(nodes) = 4
    /\ Len(connections) = 3
\* the nodes pasteFromClipboard adds to the state s
pasted(s) == SubSeq(pasteFromClipboard(s).nodes, Len(s.nodes) + 1,
                    Len(pasteFromClipboard(s).nodes))

\* the edges pasteFromClipboard adds to the state s
pastedConns(s) == SubSeq(pasteFromClipboard(s).connections, Len(s.connections) + 1,
                         Len(pasteFromClipboard(s).connections))

\* C29: a paste of a clipboard with nodes adds one node for every node of the
\* clipboard, with an id no node of the diagram holds and no other pasted
\* node gets, and one edge for every edge of the clipboard, between the
\* copies of its end nodes; the nodes and edges there were before stay as
\* they were, and so does the clipboard, so a second paste adds another copy
\* with ids of its own
C29_PasteRemapsFresh ==
    LET s == Cur
        clip == clipToPaste(s)
        t == pasteFromClipboard(s)
    IN  (clip # <<>> /\ Len(clip[1].nodes) > 0) =>
            LET orig == clip[1].nodes
                conns == clip[1].connections
                new == pasted(s)
                newConns == pastedConns(s)
                copyOf(id) == new[CHOOSE i \in 1..Len(orig) : orig[i].id = id].id
            IN  /\ Len(new) = Len(orig)
                /\ SubSeq(t.nodes, 1, Len(s.nodes)) = s.nodes
                /\ \A i \in 1..Len(new) :
                        /\ new[i].id \notin idsOf(s.nodes)
                        /\ \A j \in 1..Len(new) : i # j => new[i].id # new[j].id
                        /\ [new[i] EXCEPT !.id = orig[i].id] =
                               [orig[i] EXCEPT !.x = @ + 20, !.y = @ + 20]
                /\ \A i \in 1..Len(conns) :
                        conns[i].from \in idsOf(orig) /\ conns[i].to \in idsOf(orig)
                /\ Len(newConns) = Len(conns)
                /\ SubSeq(t.connections, 1, Len(s.connections)) = s.connections
                /\ \A i \in 1..Len(conns) :
                        newConns[i] = [from |-> copyOf(conns[i].from),
                                       to |-> copyOf(conns[i].to),
                                       label |-> conns[i].label]
                /\ t.clipboard = s.clipboard
                /\ t.internalClipboard = s.internalClipboard
                /\ Len(pasted(t)) = Len(orig)
                /\ idsOf(pasted(t)) \cap idsOf(t.nodes) = {}
                /\ Len(pastedConns(t)) = Len(conns)

\* a copied part of the sample with an edge inside it was pasted: the
\* diagram has the copies and their edge next to the five sample nodes
C29_SamplePartPasted ==
    /\ lastCall.op = "pasteFromClipboard"
    /\ internalClipboard # <<>>
    /\ Len(internalClipboard[1].connections) > 0
    /\ Len(nodes) = 5 + Len(internalClipboard[1].nodes)
    /\ Len(connections) = 4 + Len(internalClipboard[1].connections)
    /\ {-1, -2, -3, -4, -5} \subseteq idsOf(nodes)

\* the edge c of the diagram of nodes ns starts and ends at one id, or joins
\* two material nodes or two activity nodes
sameKindEdge(ns, c) ==
    \/ c.from = c.to
    \/ \E i \in 1..Len(ns), j \in 1..Len(ns) :
            /\ ns[i].id = c.from
            /\ ns[j].id = c.to
            /\ ns[i].type = ns[j].type
            /\ ns[i].type \in {"material", "activity"}

\* C30: no edge of the diagram is a self-loop and no edge joins two material
\* nodes or two activity nodes, in every state reached with the connect tool,
\* the add-connected items of the menu, the generator, duplicate and paste
C30_EdgesAlternate ==
    \A k \in 1..Len(connections) : ~sameKindEdge(nodes, connections[k])


\* the nodes of the sub-graph g as a paste places them, without their ids
shifted(g) ==
    [i \in 1..Len(g.nodes) |->
        [g.nodes[i] EXCEPT !.id = 0, !.x = @ + PasteOffset, !.y = @ + PasteOffset]]

\* the nodes a paste adds to the state s, without their ids
pastedShapes(s) == [i \in 1..Len(pasted(s)) |-> [pasted(s)[i] EXCEPT !.id = 0]]

\* C31: a paste that follows a copy or a cut of the selection adds copies of
\* the nodes of that selection, and as many edges as the selection has
\* inside it, whatever was copied or cut before
C31_PasteTakesLastCapture ==
    Len(selectedNodes) > 0 =>
        /\ pastedShapes(copySelectionToClipboard(Cur)) = shifted(clipOf(Cur))
        /\ Len(pastedConns(copySelectionToClipboard(Cur))) = Len(clipOf(Cur).connections)
        /\ pastedShapes(cutSelected(Cur)) = shifted(clipOf(Cur))
        /\ Len(pastedConns(cutSelected(Cur))) = Len(clipOf(Cur).connections)


\* the nodes of the array at address a of the memory m, by value
arrayValue(m, a) == [i \in 1..Len(m.arrs[a]) |-> m.objs[m.arrs[a][i]]]

\* the addresses of the array at a and of its objects
reach(m, a) == {<<"array", a>>} \cup {<<"object", m.arrs[a][i]>> : i \in 1..Len(m.arrs[a])}

\* C32: a snapshot that stays in history keeps the nodes it was stored with
\* through every step (a drop, a drag, a label edit, a deletion, an undo);
\* and no snapshot shares an array or an object with the diagram or with
\* another snapshot, the diagram an undo restored included
C32_SnapshotsIsolated ==
    [][/\ \A i \in 1..Len(mem.history) :
              (i <= Len(mem'.history) /\ mem'.history[i] = mem.history[i]) =>
                  arrayValue(mem', mem.history[i].nodes) =
                      arrayValue(mem, mem.history[i].nodes)
       /\ \A i \in 1..Len(mem'.history) :
              /\ reach(mem', mem'.history[i].nodes) \cap reach(mem', mem'.nodes) = {}
              /\ \A j \in 1..Len(mem'.history) :
                    i # j => reach(mem', mem'.history[i].nodes)
                                \cap reach(mem', mem'.history[j].nodes) = {}]_vars

\* after an undo a node of the restored diagram was dragged: the snapshot the
\* diagram was restored from is in history as it was, next to the snapshot
\* the drag pushed, and the diagram differs from both
C32_RestoredThenMoved ==
    /\ mem.trail = <<"undo", "move">>
    /\ Len(mem.history) >= 2
    /\ arrayValue(mem, mem.history[Len(mem.history) - 1].nodes) =
           arrayValue(mem, mem.history[Len(mem.history)].nodes)
    /\ arrayValue(mem, mem.nodes) # arrayValue(mem, mem.history[Len(mem.history)].nodes)
    /\ Len(mem.arrs[mem.nodes]) = Len(mem.arrs[mem.history[Len(mem.history)].nodes])


\* the keywords that match the words from position j on
matching(words, j) ==
    {k \in Range(materialKeywords) \cup Range(activityKeywords) : matchesAt(words, j, k)}

\* the one with the most words of a set of keywords
longest(ks) == CHOOSE k \in ks : \A o \in ks : Len(o.words) <= Len(k.words)

\* the word w is a quantity word or a digit
isQuantity(w) == quantityMap(w) # 0 \/ parseIntWord(w) # -1

RECURSIVE longestMatches(_, _)
\* the tokens from position i on: a quantity word is taken, then the longest
\* keyword that matches, with the quantity of the word or 1, or one word is
\* passed over
longestMatches(words, i) ==
    IF i > Len(words) THEN <<>>
    ELSE LET j == IF isQuantity(words[i]) THEN i + 1 ELSE i
         IN  IF j > Len(words) THEN <<>>
             ELSE IF matching(words, j) = {} THEN longestMatches(words, j + 1)
             ELSE LET k == longest(matching(words, j))
                  IN  <<[type |-> k.type, label |-> k.label,
                         quantity |-> IF ~isQuantity(words[i]) THEN 1
                                      ELSE IF quantityMap(words[i]) # 0
                                      THEN quantityMap(words[i])
                                      ELSE parseIntWord(words[i])]>>
                          \o longestMatches(words, j + Len(k.words))

\* C33: the tokens of a text are, from left to right, the keyword with the
\* most words among those that match at the position after an optional
\* quantity word, the position then moving behind the keyword; a word that
\* starts no keyword gives no token; only one keyword of the most words
\* matches at a position
C33_LongestMatch ==
    lastCall.op = "generateFromNL" =>
        LET words == lastCall.ret
            tokens == tokenize(words)
        IN  /\ tokens = longestMatches(words, 1)
            /\ \A j \in 1..Len(words) :
                    \A k \in matching(words, j), o \in matching(words, j) :
                        Len(k.words) = Len(o.words) => k = o

\* the text of the four-word keyword was generated: one node of that label
C33_PhraseMatched ==
    /\ lastCall.op = "generateFromNL"
    /\ lastCall.ret = <<"consumed", "in", "a", "bom">>
    /\ Len(nodes) = 1
    /\ nodes[1].label = "Consumed In A Bom"
    /\ nodes[1].type = "activity"


\* C34: in the basic canvas, after a diagram was loaded, the id the next
\* addNode gives is the id of no loaded node
C34_BasicFreshIdAfterLoad ==
    lastCall = CallOf("showStatus", 0, 0, "success") =>
        LastNode(basic_addNode(Cur, "material", PosA)).id \notin idsOf(nodes)


\* C35: a click of the select tool on a node, released where it was pressed,
\* leaves the history stack and the history pointer as they were
C35_SelectClickKeepsHistory ==
    \A pos \in PointerPositions :
        (/\ modalHidden
         /\ currentTool = "select"
         /\ ~isCtrlPressed
         /\ getNodeAt(nodes, pos) # <<>>
         /\ clickGesture(Cur, pos).modalHidden) =>
            LET t == clickGesture(Cur, pos)
            IN  /\ t.history = history
                /\ t.currentIndex = currentIndex


\* C36: every element of selectedNodes is an object of the node array and
\* selectedConnection, when set, is an object of the connection array
C36_SelectionInsideGraph ==
    /\ \A i \in 1..Len(selectedNodes) :
            selectedNodes[i].live /\ selectedNodes[i].id \in NodeIds(nodes)
    /\ selectedConnection # <<>> =>
            /\ selectedConnection[1].live
            /\ \E k \in 1..Len(connections) :
                    ConnKey(connections[k]) = selectedConnection[1].id


\* the gestures in progress in s
gestures(s) ==
    {g \in {"pan", "drag", "resize", "select", "stroke"} :
        \/ g = "pan" /\ s.isPanning
        \/ g = "drag" /\ s.isDraggingElement
        \/ g = "resize" /\ s.isResizing
        \/ g = "select" /\ s.isSelecting
        \/ g = "stroke" /\ s.currentStroke # <<>>}

\* C37: at most one of isPanning, isDraggingElement, isResizing, isSelecting
\* and an unfinished stroke holds in every reachable state
C37_OneGesture == Cardinality(gestures(Cur)) <= 1


\* C38: every token of the text last generated from has a quantity of at
\* least 1, and a generation that built a diagram from tokens leaves at
\* least one node
C38_QuantityAtLeastOne ==
    lastCall.op = "generateFromNL" =>
        LET tokens == tokenize(lastCall.ret)
        IN  /\ \A t \in 1..Len(tokens) : tokens[t].quantity >= 1
            /\ Len(tokens) > 0 => Len(nodes) > 0


C40_CancelChangesNothing ==
    \A pos \in {PosA, PosB}, value \in EditTexts :
        LET o == handleDoubleClick(Cur, pos)
            t == cancelEdit(editInputHandlerCall(o, value))
        IN  (modalHidden /\ ~o.modalHidden) =>
                /\ t.nodes = o.nodes
                /\ t.connections = o.connections
                /\ t.history = o.history
                /\ t.currentIndex = o.currentIndex

====
